---- MODULE Spec2Model ----
(***************************************************************************)
(* Model of the efctl terminal dashboard (cmd/env_dash.go): the bubbletea  *)
(* model struct, its Update transition function, the snapshot poller and   *)
(* the log viewport.                                                       *)
(***************************************************************************)
EXTENDS Integers, Sequences, FiniteSets, TLC

VARIABLES
    m,        \* the model struct (value receiver of Update / View)
    n,        \* number of LogMsg events processed by Update so far
    msgs,     \* messages sent to the tea.Program and not yet received by the event loop
    timers,   \* pending tea.Tick timers (ids)
    polls,    \* fetchStats commands in flight (ids)
    cmds,     \* external lifecycle commands issued through tea.ExecProcess, in order
    disk,     \* docker-compose.override.yml as read by initialModel / applyStats
    quit,     \* tea.Quit was returned by Update
    hist,     \* counters of ticks processed, timers scheduled, polls started, StatsMsg sent
    q,        \* outcomes of the external queries of one poll
    pc,       \* position of the poll / render pipeline specifications
    frame,    \* what the last View call rendered
    fol,      \* the log followers started by collectLogs and their sources
    lay       \* a call of a layout function: its arguments and its result

vars == <<m, n, msgs, timers, polls, cmds, disk, quit, hist, q, pc, frame, fol, lay>>

(***************************************************************************)
(* Bounds                                                                  *)
(***************************************************************************)
MaxMsgs == 503          \* LogMsg events per run (passes the buffer cap)

(***************************************************************************)
(* Program constants                                                       *)
(***************************************************************************)
LogCap == 500           \* Update, case LogMsg: len(m.logs) > 500
WheelStep == 3          \* handleMouseScroll: m.logScroll += 3 / -= 3
PageStep == 20          \* handleKeyMsg: pgup / pgdown

(***************************************************************************)
(* Helpers                                                                 *)
(***************************************************************************)
max(a, b) == IF a >= b THEN a ELSE b

min(a, b) == IF a <= b THEN a ELSE b

\* Go integer division truncates toward zero.
GoDiv(a, b) == IF a >= 0 THEN a \div b ELSE -((-a) \div b)

\* Go slice expression s[lo:hi] (0-based, hi exclusive).
Slice(s, lo, hi) == SubSeq(s, lo + 1, hi)

(***************************************************************************)
(* logViewportRows / maxLogScroll / clampScroll                            *)
(***************************************************************************)
logViewportRows(height, numEvents) ==
    LET headerH   == 1
        available == height - headerH
        topRows   == IF GoDiv(available * 30, 100) < 8 THEN 8
                     ELSE GoDiv(available * 30, 100)
        botRows   == available - topRows - 3
    IN  IF botRows < 3 THEN 3 ELSE botRows

maxLogScroll(mm) ==
    LET viewport == logViewportRows(mm.height, Len(mm.worldEvents))
        mx       == Len(mm.logs) - viewport
    IN  IF mx < 0 THEN 0 ELSE mx

\* variant of clampScroll without the upper clamp
clampScroll_lowerOnly(mm) ==
    IF mm.logScroll < 0 THEN [mm EXCEPT !.logScroll = 0] ELSE mm

clampScroll(mm) ==
    LET a == IF mm.logScroll > maxLogScroll(mm)
             THEN [mm EXCEPT !.logScroll = maxLogScroll(mm)] ELSE mm
    IN  IF a.logScroll < 0 THEN [a EXCEPT !.logScroll = 0] ELSE a

(***************************************************************************)
(* handleMouseScroll                                                       *)
(***************************************************************************)
MouseButtons == {"wheelup", "wheeldown", "left"}

handleMouseScroll(mm, button) ==
    CASE button = "wheelup" ->
            LET a == [mm EXCEPT !.logScroll = @ + WheelStep]
            IN  IF a.logScroll > maxLogScroll(a)
                THEN [a EXCEPT !.logScroll = maxLogScroll(a)] ELSE a
      [] button = "wheeldown" ->
            LET a == [mm EXCEPT !.logScroll = @ - WheelStep]
            IN  IF a.logScroll < 0 THEN [a EXCEPT !.logScroll = 0] ELSE a
      [] OTHER -> mm

(***************************************************************************)
(* handleKeyMsg, scroll keys                                               *)
(***************************************************************************)
ScrollKeys == {"up", "k", "down", "j", "home", "end", "pgup", "pgdown"}

handleScrollKey(mm, key) ==
    CASE key \in {"up", "k"}   -> clampScroll([mm EXCEPT !.logScroll = @ + 1])
      [] key \in {"down", "j"} -> clampScroll([mm EXCEPT !.logScroll = @ - 1])
      [] key = "home"          -> [mm EXCEPT !.logScroll = maxLogScroll(mm)]
      [] key = "end"           -> [mm EXCEPT !.logScroll = 0]
      [] key = "pgup"          -> clampScroll([mm EXCEPT !.logScroll = @ + PageStep])
      [] key = "pgdown"        -> clampScroll([mm EXCEPT !.logScroll = @ - PageStep])
      [] OTHER                 -> mm

(***************************************************************************)
(* Update, case LogMsg                                                     *)
(***************************************************************************)
\* variant of the LogMsg case that keeps the first 500 lines
appendLog_keepOldest(mm, line) ==
    LET a == Append(mm.logs, line)
    IN  [mm EXCEPT !.logs = IF Len(a) > LogCap THEN Slice(a, 0, LogCap) ELSE a]

appendLog(mm, line) ==
    LET a == Append(mm.logs, line)
    IN  [mm EXCEPT !.logs = IF Len(a) > LogCap
                            THEN Slice(a, Len(a) - LogCap, Len(a)) ELSE a]

(***************************************************************************)
(* Go maps: nil (zero value) or made, with a set of <<key, value>> pairs   *)
(***************************************************************************)
NilMap == [isNil |-> TRUE, kv |-> {}]

MakeMap(kv) == [isNil |-> FALSE, kv |-> kv]

HasKey(mp, k) == \E e \in mp.kv : e[1] = k

Lookup(mp, k) == (CHOOSE e \in mp.kv : e[1] = k)[2]

(***************************************************************************)
(* Outcomes of the external queries of one poll                            *)
(***************************************************************************)
\* `engine stats --no-stream`: exec error, or the output split in lines and tabs
StatsLineSui == <<"sui-playground", "1%", "10MiB">>

StatsLinePg == <<"docker-postgres-1", "2%", "20MiB">>

StatsLineFe == <<"docker_frontend_1", "3%", "30MiB">>

StatsOutputOf(S) ==
    (IF "sui" \in S THEN <<StatsLineSui>> ELSE <<>>)
      \o (IF "pg" \in S THEN <<StatsLinePg>> ELSE <<>>)
      \o (IF "fe" \in S THEN <<StatsLineFe>> ELSE <<>>)
      \o << <<"">> >>

StatsOutcomes ==
    {[err |-> TRUE, lines |-> <<>>]}
      \cup {[err |-> FALSE, lines |-> StatsOutputOf(S)] : S \in SUBSET {"sui", "pg", "fe"}}

\* an RPC call with a string result: client.Do fails, or the decoded Result
\* ("" when the body has no decodable result, e.g. an RPC error object)
RpcErr == [err |-> TRUE, result |-> ""]

RpcStringOutcomes(v) == {RpcErr, [err |-> FALSE, result |-> ""], [err |-> FALSE, result |-> v]}

\* sui_getLatestSuiSystemState: Result is a map, "epoch" present as a string or not
EpochErr == [err |-> TRUE, hasEpoch |-> FALSE, epoch |-> ""]

EpochOutcomes ==
    {EpochErr, [err |-> FALSE, hasEpoch |-> FALSE, epoch |-> ""],
     [err |-> FALSE, hasEpoch |-> TRUE, epoch |-> "7"]}

\* suix_queryTransactionBlocks: client.Do fails, or the decoded data
RecentErr == [err |-> TRUE, data |-> <<>>]

RecentOutcomes == {RecentErr, [err |-> FALSE, data |-> <<"tx1">>]}

\* extracted-object-ids.json
ManifestErr == [err |-> TRUE, hasWorld |-> FALSE, world |-> {}]

ManifestOutcomes ==
    {ManifestErr, [err |-> FALSE, hasWorld |-> FALSE, world |-> {}],
     [err |-> FALSE, hasWorld |-> TRUE,
      world |-> {<<"packageId", "0xPKG">>, <<"governorCap", "0xGOV">>}]}

\* world-contracts/.env: unreadable, or the ADMIN_ADDRESS match and the key=value pairs
EnvFileErr == [err |-> TRUE, admin |-> "", vars |-> {}]

EnvFileOutcomes ==
    {EnvFileErr, [err |-> FALSE, admin |-> "", vars |-> {}],
     [err |-> FALSE, admin |-> "0xAD",
      vars |-> {<<"ADMIN_ADDRESS", "0xAD">>, <<"SPONSOR_ADDRESS", "0xSP">>,
                <<"PLAYER_A_PRIVATE_KEY", "suiprivkeyA">>}]}

\* `sui keytool import`: "" when the command or the decoding fails
DeriveOutcomes == {"", "0xPA"}

\* suix_queryEvents: client.Do fails, or the decoded events (package id each)
EventsErr == [err |-> TRUE, data |-> <<>>]

EventsOutcomes == {EventsErr, [err |-> FALSE, data |-> <<"0xPKG", "0xOTHER">>]}

QueryOutcomes ==
    [stats : StatsOutcomes, cp : RpcStringOutcomes("1234"), tx : RpcStringOutcomes("99"),
     ep : EpochOutcomes, recent : RecentOutcomes, manifest : ManifestOutcomes,
     envfile : EnvFileOutcomes, derive : DeriveOutcomes, events : EventsOutcomes]

AllFail ==
    [stats |-> [err |-> TRUE, lines |-> <<>>], cp |-> RpcErr, tx |-> RpcErr,
     ep |-> EpochErr, recent |-> RecentErr, manifest |-> ManifestErr,
     envfile |-> EnvFileErr, derive |-> "", events |-> EventsErr]

AllOk ==
    [stats |-> [err |-> FALSE, lines |-> StatsOutputOf({"sui", "pg", "fe"})],
     cp |-> [err |-> FALSE, result |-> "1234"], tx |-> [err |-> FALSE, result |-> "99"],
     ep |-> [err |-> FALSE, hasEpoch |-> TRUE, epoch |-> "7"],
     recent |-> [err |-> FALSE, data |-> <<"tx1">>],
     manifest |-> [err |-> FALSE, hasWorld |-> TRUE,
                   world |-> {<<"packageId", "0xPKG">>, <<"governorCap", "0xGOV">>}],
     envfile |-> [err |-> FALSE, admin |-> "0xAD",
                  vars |-> {<<"ADMIN_ADDRESS", "0xAD">>, <<"SPONSOR_ADDRESS", "0xSP">>,
                            <<"PLAYER_A_PRIVATE_KEY", "suiprivkeyA">>}],
     derive |-> "0xPA", events |-> [err |-> FALSE, data |-> <<"0xPKG", "0xOTHER">>]]

(***************************************************************************)
(* parseContainerStats                                                     *)
(***************************************************************************)
StoppedStat == [Name |-> "", Status |-> "Stopped", CPU |-> "-", Mem |-> "-"]

RunningStat(parts) == [Name |-> "", Status |-> "Running", CPU |-> parts[2], Mem |-> parts[3]]

RECURSIVE parseStatsLines(_, _)
parseStatsLines(lines, acc) ==
    IF lines = <<>> THEN acc
    ELSE LET parts == Head(lines)
             name  == parts[1]
             a1 == IF Len(parts) >= 3 /\ name = "sui-playground"
                   THEN [acc EXCEPT !.sui = RunningStat(parts)] ELSE acc
             a2 == IF Len(parts) >= 3 /\ name \in {"docker-postgres-1", "docker_postgres_1"}
                   THEN [a1 EXCEPT !.pg = RunningStat(parts)] ELSE a1
             a3 == IF Len(parts) >= 3 /\ name \in {"docker-frontend-1", "docker_frontend_1"}
                   THEN [a2 EXCEPT !.fe = RunningStat(parts)] ELSE a2
         IN  parseStatsLines(Tail(lines), a3)

\* variant of parseContainerStats that leaves the zero value on an exec error
parseContainerStats_zero(out) ==
    LET zero == [Name |-> "", Status |-> "", CPU |-> "", Mem |-> ""]
        init == [sui |-> StoppedStat, pg |-> StoppedStat, fe |-> StoppedStat]
    IN  IF out.err THEN [sui |-> zero, pg |-> zero, fe |-> zero]
        ELSE parseStatsLines(out.lines, init)

parseContainerStats(out) ==
    LET init == [sui |-> StoppedStat, pg |-> StoppedStat, fe |-> StoppedStat]
    IN  IF out.err THEN init ELSE parseStatsLines(out.lines, init)

(***************************************************************************)
(* fetchChainInfo                                                          *)
(***************************************************************************)
fetchChainInfo(qq) ==
    [ Checkpoint |-> IF ~qq.cp.err THEN qq.cp.result ELSE "Offline",
      TxCount    |-> IF ~qq.tx.err THEN qq.tx.result ELSE "-",
      Epoch      |-> IF ~qq.ep.err /\ qq.ep.hasEpoch THEN qq.ep.epoch ELSE "-",
      RecentTxs  |-> IF ~qq.recent.err THEN qq.recent.data ELSE <<>> ]

(***************************************************************************)
(* extractWorldObjects / extractAdmin / extractEnvVars / buildAddresses    *)
(***************************************************************************)
extractWorldObjects(file) ==
    IF file.err \/ ~file.hasWorld
    THEN [objs |-> MakeMap({}), pkgID |-> ""]
    ELSE [objs  |-> MakeMap({e \in file.world : e[1] # "packageId"}),
          pkgID |-> IF \E e \in file.world : e[1] = "packageId"
                    THEN (CHOOSE e \in file.world : e[1] = "packageId")[2] ELSE ""]

extractAdmin(file) ==
    IF file.err THEN "Unknown"
    ELSE IF file.admin # "" THEN file.admin ELSE "Not Found"

extractEnvVars(file) ==
    IF file.err THEN MakeMap({}) ELSE MakeMap({e \in file.vars : e[2] # ""})

AdminKnown(admin) == admin # "" /\ admin # "Unknown" /\ admin # "Not Found"

buildAddresses(admin, envVars, derived) ==
    MakeMap(
        (IF AdminKnown(admin) THEN {<<"Admin", admin>>} ELSE {})
          \cup (IF HasKey(envVars, "SPONSOR_ADDRESS")
                THEN {<<"Sponsor", Lookup(envVars, "SPONSOR_ADDRESS")>>} ELSE {})
          \cup (IF HasKey(envVars, "PLAYER_A_PRIVATE_KEY") /\ derived # ""
                THEN {<<"Player A", derived>>} ELSE {})
          \cup (IF HasKey(envVars, "PLAYER_B_PRIVATE_KEY") /\ derived # ""
                THEN {<<"Player B", derived>>} ELSE {}))

(***************************************************************************)
(* fetchWorldEvents / fetchStats                                           *)
(***************************************************************************)
fetchWorldEvents(ev, pkgID) ==
    IF ev.err THEN <<>> ELSE SelectSeq(ev.data, LAMBDA p : p = pkgID)

fetchStats(qq) ==
    LET cs    == parseContainerStats(qq.stats)
        wo    == extractWorldObjects(qq.manifest)
        admin == extractAdmin(qq.envfile)
        ev    == extractEnvVars(qq.envfile)
    IN  [ Sui |-> cs.sui, Pg |-> cs.pg, Fe |-> cs.fe,
          Chain |-> fetchChainInfo(qq),
          Objects |-> <<>>,
          Admin |-> admin,
          EnvVars |-> ev,
          WorldObjs |-> wo.objs,
          Addresses |-> buildAddresses(admin, ev, qq.derive),
          WorldPkgID |-> wo.pkgID,
          Events |-> IF wo.pkgID # "" /\ AdminKnown(admin)
                     THEN fetchWorldEvents(qq.events, wo.pkgID) ELSE <<>> ]

(***************************************************************************)
(* docker-compose.override.yml                                             *)
(***************************************************************************)
DiskStates ==
    {[readable |-> FALSE, gql |-> FALSE, fe |-> FALSE]}
      \cup [readable : {TRUE}, gql : BOOLEAN, fe : BOOLEAN]

(***************************************************************************)
(* initialModel / applyStats                                               *)
(***************************************************************************)
CheckingStat == [Name |-> "", Status |-> "Checking...", CPU |-> "-", Mem |-> "-"]

initialModel(d) ==
    [ width |-> 0, height |-> 0,
      suiStat |-> CheckingStat, pgStat |-> CheckingStat, feStat |-> CheckingStat,
      chainInfo |-> [Checkpoint |-> "", TxCount |-> "", Epoch |-> "", RecentTxs |-> <<>>],
      recentTxs |-> <<>>, objectTrackers |-> <<>>,
      adminAddr |-> "Checking...",
      envVars |-> NilMap, worldObjs |-> NilMap, addresses |-> NilMap,
      worldPkgID |-> "",
      logs |-> <<>>, logScroll |-> 0,
      graphqlOn |-> d.readable /\ d.gql,
      frontendOn |-> d.readable /\ d.fe,
      worldEvents |-> <<>> ]

\* variant of applyStats that also returns the log panel to live mode
applyStats_resetScroll(mm, msg, d) ==
    [mm EXCEPT !.suiStat = msg.Sui, !.pgStat = msg.Pg, !.feStat = msg.Fe,
               !.chainInfo = msg.Chain, !.recentTxs = msg.Chain.RecentTxs,
               !.objectTrackers = msg.Objects, !.adminAddr = msg.Admin,
               !.envVars = msg.EnvVars, !.worldObjs = msg.WorldObjs,
               !.addresses = msg.Addresses, !.worldPkgID = msg.WorldPkgID,
               !.worldEvents = msg.Events, !.logScroll = 0,
               !.graphqlOn = IF d.readable THEN d.gql ELSE FALSE,
               !.frontendOn = IF d.readable THEN d.fe ELSE FALSE]

applyStats(mm, msg, d) ==
    [mm EXCEPT !.suiStat = msg.Sui, !.pgStat = msg.Pg, !.feStat = msg.Fe,
               !.chainInfo = msg.Chain, !.recentTxs = msg.Chain.RecentTxs,
               !.objectTrackers = msg.Objects, !.adminAddr = msg.Admin,
               !.envVars = msg.EnvVars, !.worldObjs = msg.WorldObjs,
               !.addresses = msg.Addresses, !.worldPkgID = msg.WorldPkgID,
               !.worldEvents = msg.Events,
               !.graphqlOn = IF d.readable THEN d.gql ELSE FALSE,
               !.frontendOn = IF d.readable THEN d.fe ELSE FALSE]

(***************************************************************************)
(* View: vertical budget and the log window of renderBottomPanels          *)
(***************************************************************************)
\* variant of renderBottomPanels whose window always ends at the newest line
renderBottomPanels_tail(mm, botRows) ==
    LET endIdx   == Len(mm.logs)
        s0       == endIdx - botRows
        startIdx == IF s0 < 0 THEN 0 ELSE s0
    IN  [ startIdx |-> startIdx, endIdx |-> endIdx, panic |-> FALSE,
          visibleLogs |-> Slice(mm.logs, startIdx, endIdx) ]

renderBottomPanels(mm, botRows) ==
    LET e0       == Len(mm.logs) - mm.logScroll
        endIdx   == IF e0 < 0 THEN 0 ELSE e0
        s0       == endIdx - botRows
        startIdx == IF s0 < 0 THEN 0 ELSE s0
    IN  [ startIdx |-> startIdx, endIdx |-> endIdx,
          panic |-> startIdx > endIdx \/ endIdx > Len(mm.logs),
          visibleLogs |-> IF startIdx > endIdx \/ endIdx > Len(mm.logs) THEN <<>>
                          ELSE Slice(mm.logs, startIdx, endIdx) ]

\* headerH is lipgloss.Height of the rendered header: 1 unless the header wraps
View(mm, headerH) ==
    IF mm.width = 0
    THEN [initializing |-> TRUE, botRows |-> 0, visibleLogs |-> <<>>, panic |-> FALSE]
    ELSE LET available == mm.height - headerH
             topRows   == max(GoDiv(available * 30, 100), 8)
             botRows   == max(available - topRows - 3, 3)
             bp        == renderBottomPanels(mm, botRows)
         IN  [initializing |-> FALSE, botRows |-> botRows,
              visibleLogs |-> bp.visibleLogs, panic |-> bp.panic]

NoFrame == [initializing |-> TRUE, botRows |-> 0, visibleLogs |-> <<>>, panic |-> FALSE]

(***************************************************************************)
(* Bounds of the dashboard specification                                   *)
(***************************************************************************)
MaxTicks == 3           \* TickMsg events processed per run
MaxCmds == 2            \* external lifecycle commands issued per run
MaxFollowerLines == 6   \* log lines sent by the log followers per run

\* terminal sizes reported by WindowSizeMsg: <<width, height>>
Sizes == {<<80, 24>>, <<120, 40>>}

(***************************************************************************)
(* Lifecycle commands: handleRestart / handleEnvDown / handleEnableGraphQL *)
(* / handleEnableFrontend return the ExecProcess command to run, if any    *)
(***************************************************************************)
handleRestart(mm) ==
    << [kind |-> "restartDown",
        upArgs |-> (IF mm.graphqlOn THEN {"--with-graphql"} ELSE {})
                     \cup (IF mm.frontendOn THEN {"--with-frontend"} ELSE {})] >>

handleEnvDown(mm) == << [kind |-> "envDown", upArgs |-> {}] >>

\* variant of handleEnableGraphQL without the test of graphqlOn
handleEnableGraphQL_always(mm) ==
    << [kind |-> "enableGraphQL",
        upArgs |-> {"--with-graphql"}
                     \cup (IF mm.frontendOn THEN {"--with-frontend"} ELSE {})] >>

handleEnableGraphQL(mm) ==
    IF ~mm.graphqlOn
    THEN << [kind |-> "enableGraphQL",
             upArgs |-> {"--with-graphql"}
                          \cup (IF mm.frontendOn THEN {"--with-frontend"} ELSE {})] >>
    ELSE <<>>

handleEnableFrontend(mm) ==
    IF ~mm.frontendOn
    THEN << [kind |-> "enableFrontend",
             upArgs |-> {"--with-frontend"}
                          \cup (IF mm.graphqlOn THEN {"--with-graphql"} ELSE {})] >>
    ELSE <<>>

\* Update, case restartUpMsg
handleRestartUpMsg(msg) == << [kind |-> "restartUp", upArgs |-> msg.upArgs] >>

(***************************************************************************)
(* The callbacks handed to tea.ExecProcess: the message each returns       *)
(***************************************************************************)
NoMsgs == [tick |-> {}, stats |-> {}, log |-> {}, exec |-> {}, up |-> {}]

LogMsg(text, id) == [NoMsgs EXCEPT !.log = {[text |-> text, id |-> id]}]

\* variant of the handleRestart callback that chains into env up whatever
\* the result of env down
restartDownDone_ignoreErr(c, id, err) ==
    [NoMsgs EXCEPT !.up = {[rid |-> id, upArgs |-> c.upArgs]}]

restartDownDone(c, id, err) ==
    IF err THEN LogMsg("Error during restart (down)", id)
    ELSE [NoMsgs EXCEPT !.up = {[rid |-> id, upArgs |-> c.upArgs]}]

\* variant of the callbacks that reports nothing when the command failed
execCallback_silent(c, id, err) ==
    CASE c.kind = "restartDown" -> restartDownDone(c, id, err)
      [] c.kind = "restartUp" ->
            IF err THEN NoMsgs
            ELSE LogMsg("Environment restarted successfully.", id)
      [] c.kind = "envDown" ->
            IF err THEN NoMsgs
            ELSE LogMsg("Env DOWN completed.", id)
      [] c.kind = "enableGraphQL" ->
            IF err THEN NoMsgs
            ELSE LogMsg("GraphQL enabled successfully.", id)
      [] c.kind = "enableFrontend" ->
            IF err THEN NoMsgs
            ELSE LogMsg("Frontend enabled successfully.", id)

execCallback(c, id, err) ==
    CASE c.kind = "restartDown" -> restartDownDone(c, id, err)
      [] c.kind = "restartUp" ->
            IF err THEN LogMsg("Error during restart (up)", id)
            ELSE LogMsg("Environment restarted successfully.", id)
      [] c.kind = "envDown" ->
            IF err THEN LogMsg("Error running env down", id)
            ELSE LogMsg("Env DOWN completed.", id)
      [] c.kind = "enableGraphQL" ->
            IF err THEN LogMsg("Error enabling GraphQL", id)
            ELSE LogMsg("GraphQL enabled successfully.", id)
      [] c.kind = "enableFrontend" ->
            IF err THEN LogMsg("Error enabling frontend", id)
            ELSE LogMsg("Frontend enabled successfully.", id)

MergeMsgs(a, b) ==
    [tick |-> a.tick \cup b.tick, stats |-> a.stats \cup b.stats, log |-> a.log \cup b.log,
     exec |-> a.exec \cup b.exec, up |-> a.up \cup b.up]

(***************************************************************************)
(* The tea.Program: Init, the event loop and the goroutines of its commands*)
(***************************************************************************)
\* the event loop is inside p.exec: it runs the process and waits for it
Blocked == \E i \in 1..Len(cmds) : cmds[i].st = "running"

Running == ~quit /\ ~Blocked

\* no log follower has been started, no layout function has been called
NoFol == [collect |-> "idle"]

NoLay == [fn |-> "none", args |-> <<>>, st |-> "idle", out |-> <<>>]

PollerVars == <<timers, polls, hist>>

OtherVars == <<q, pc, frame, fol, lay>>

\* state after initialModel and model.Init: one tick timer and one poll started
InitDash ==
    /\ disk \in DiskStates
    /\ m = initialModel(disk)
    /\ n = 0
    /\ msgs = NoMsgs
    /\ timers = {1}
    /\ polls = {1}
    /\ cmds = <<>>
    /\ quit = FALSE
    /\ hist = [ticks |-> 0, timers |-> 1, polls |-> 1, stats |-> 0, lines |-> 0]
    /\ q = AllFail
    /\ pc = "run"
    /\ frame = NoFrame
    /\ fol = NoFol
    /\ lay = NoLay

\* issue the command a handler returned: its execMsg is sent to the program
Issue(c, rid) ==
    IF c = <<>> THEN UNCHANGED <<cmds, msgs>>
    ELSE /\ Len(cmds) < MaxCmds
         /\ cmds' = Append(cmds, [kind |-> c[1].kind, upArgs |-> c[1].upArgs,
                                  rid |-> IF rid = 0 THEN Len(cmds) + 1 ELSE rid,
                                  st |-> "queued"])
         /\ msgs' = [msgs EXCEPT !.exec = @ \cup {Len(cmds) + 1}]

UpdateMouseMsg ==
    /\ Running
    /\ \E b \in MouseButtons : m' = handleMouseScroll(m, b)
    /\ UNCHANGED <<n, msgs, cmds, disk, quit, PollerVars, OtherVars>>

UpdateScrollKey ==
    /\ Running
    /\ \E key \in ScrollKeys : m' = handleScrollKey(m, key)
    /\ UNCHANGED <<n, msgs, cmds, disk, quit, PollerVars, OtherVars>>

UpdateQuitKey ==
    /\ Running
    /\ \E key \in {"q", "ctrl+c"} : quit' = TRUE
    /\ UNCHANGED <<m, n, msgs, cmds, disk, PollerVars, OtherVars>>

UpdateCommandKey ==
    /\ Running
    /\ \E key \in {"r", "d", "g", "f"} :
          Issue(CASE key = "r" -> handleRestart(m)
                  [] key = "d" -> handleEnvDown(m)
                  [] key = "g" -> handleEnableGraphQL(m)
                  [] key = "f" -> handleEnableFrontend(m), 0)
    /\ UNCHANGED <<m, n, disk, quit, PollerVars, OtherVars>>

UpdateWindowSizeMsg ==
    /\ Running
    /\ \E sz \in Sizes : m' = [m EXCEPT !.width = sz[1], !.height = sz[2]]
    /\ UNCHANGED <<n, msgs, cmds, disk, quit, PollerVars, OtherVars>>

\* case TickMsg: tea.Batch(tickCmd(), fetchStats)
\* variant of the TickMsg case that starts the poll without a new timer
tickBatch_noTimer(h) == [timers |-> {}, polls |-> {h.polls + 1}]

tickBatch(h) == [timers |-> {h.timers + 1}, polls |-> {h.polls + 1}]

UpdateTickMsg ==
    /\ Running
    /\ hist.ticks < MaxTicks
    /\ \E t \in msgs.tick :
          /\ msgs' = [msgs EXCEPT !.tick = @ \ {t}]
          /\ timers' = timers \cup tickBatch(hist).timers
          /\ polls' = polls \cup tickBatch(hist).polls
          /\ hist' = [hist EXCEPT !.ticks = @ + 1,
                                  !.timers = @ + Cardinality(tickBatch(hist).timers),
                                  !.polls = @ + Cardinality(tickBatch(hist).polls)]
    /\ UNCHANGED <<m, n, cmds, disk, quit, OtherVars>>

UpdateStatsMsg ==
    /\ Running
    /\ \E s \in msgs.stats :
          /\ msgs' = [msgs EXCEPT !.stats = @ \ {s}]
          /\ m' = applyStats(m, s.body, disk)
    /\ UNCHANGED <<n, cmds, disk, quit, PollerVars, OtherVars>>

UpdateRestartUpMsg ==
    /\ Running
    /\ \E u \in msgs.up :
          /\ cmds' = Append(cmds, [kind |-> "restartUp", upArgs |-> handleRestartUpMsg(u)[1].upArgs,
                                   rid |-> u.rid, st |-> "queued"])
          /\ msgs' = [msgs EXCEPT !.up = @ \ {u}, !.exec = @ \cup {Len(cmds) + 1}]
    /\ UNCHANGED <<m, n, disk, quit, PollerVars, OtherVars>>

UpdateLogMsg ==
    /\ Running
    /\ \E l \in msgs.log :
          /\ msgs' = [msgs EXCEPT !.log = @ \ {l}]
          /\ m' = appendLog(m, l)
          /\ n' = n + 1
    /\ UNCHANGED <<cmds, disk, quit, PollerVars, OtherVars>>

\* the event loop receives an execMsg and runs the process: p.exec blocks
\* until the process has exited
ExecStart ==
    /\ Running
    /\ \E i \in msgs.exec :
          /\ msgs' = [msgs EXCEPT !.exec = @ \ {i}]
          /\ cmds' = [cmds EXCEPT ![i].st = "running"]
    /\ UNCHANGED <<m, n, disk, quit, PollerVars, OtherVars>>

\* the process exits; the callback's message is sent to the program.  The
\* efctl env up / env down process may have rewritten the override file.
ExecDone ==
    /\ ~quit
    /\ \E i \in 1..Len(cmds), err \in BOOLEAN, d \in DiskStates :
          /\ cmds[i].st = "running"
          /\ cmds' = [cmds EXCEPT ![i].st = IF err THEN "failed" ELSE "ok"]
          /\ msgs' = MergeMsgs(msgs, execCallback(cmds[i], i, err))
          /\ disk' = d
    /\ UNCHANGED <<m, n, quit, PollerVars, OtherVars>>

\* a tea.Tick timer fires: its goroutine sends TickMsg
TimerFire ==
    /\ ~quit
    /\ \E t \in timers :
          /\ timers' = timers \ {t}
          /\ msgs' = [msgs EXCEPT !.tick = @ \cup {t}]
    /\ UNCHANGED <<m, n, polls, cmds, disk, quit, hist, OtherVars>>

\* a fetchStats goroutine returns: its StatsMsg is sent
PollDone ==
    /\ ~quit
    /\ \E p \in polls, qq \in {AllFail, AllOk} :
          /\ polls' = polls \ {p}
          /\ msgs' = [msgs EXCEPT !.stats = @ \cup {[id |-> p, body |-> fetchStats(qq)]}]
          /\ hist' = [hist EXCEPT !.stats = @ + 1]
    /\ UNCHANGED <<m, n, timers, cmds, disk, quit, OtherVars>>

\* the log follower sends a line: p.Send returns once the event loop has
\* received it, so a follower has at most one line in flight
FollowerSend ==
    /\ ~quit
    /\ hist.lines < MaxFollowerLines
    /\ \A l \in msgs.log : l.text # "[docker] line"
    /\ msgs' = [msgs EXCEPT !.log = @ \cup {[text |-> "[docker] line", id |-> hist.lines + 1]}]
    /\ hist' = [hist EXCEPT !.lines = @ + 1]
    /\ UNCHANGED <<m, n, timers, polls, cmds, disk, quit, OtherVars>>

\* lifecycle commands, the first poll and the log lines the callbacks send
NextDash ==
    \/ UpdateQuitKey \/ UpdateCommandKey \/ UpdateStatsMsg
    \/ UpdateRestartUpMsg \/ UpdateLogMsg \/ ExecStart \/ ExecDone \/ PollDone

Spec == InitDash /\ [][NextDash]_vars

\* the poller: ticks, polls and snapshots
NextTick ==
    \/ UpdateQuitKey \/ UpdateTickMsg \/ UpdateStatsMsg \/ TimerFire \/ PollDone

SpecTick == InitDash /\ [][NextTick]_vars

\* scrolling, resizing and log lines of the follower
NextResize ==
    \/ UpdateMouseMsg \/ UpdateScrollKey \/ UpdateWindowSizeMsg
    \/ UpdateLogMsg \/ FollowerSend

SpecResize == InitDash /\ [][NextResize]_vars

(***************************************************************************)
(* Scroll specification: the terminal size is reported once, at startup,   *)
(* then scroll commands interleave with log lines up to and past the cap   *)
(***************************************************************************)
\* the terminal size of the scroll specification: <<width, height>>
ScrollSizes == {<<80, 40>>}

InitScroll ==
    /\ disk = [readable |-> FALSE, gql |-> FALSE, fe |-> FALSE]
    /\ m = initialModel(disk)
    /\ n = 0
    /\ msgs = NoMsgs
    /\ timers = {}
    /\ polls = {}
    /\ cmds = <<>>
    /\ quit = FALSE
    /\ hist = [ticks |-> 0, timers |-> 0, polls |-> 0, stats |-> 0, lines |-> 0]
    /\ q = AllFail
    /\ pc = "run"
    /\ frame = NoFrame
    /\ fol = NoFol
    /\ lay = NoLay

\* the WindowSizeMsg bubbletea sends when the program starts
ScrollFirstSize ==
    /\ m.width = 0
    /\ n = 0
    /\ m.logScroll = 0
    /\ \E sz \in ScrollSizes : m' = [m EXCEPT !.width = sz[1], !.height = sz[2]]
    /\ UNCHANGED <<n, msgs, cmds, disk, quit, PollerVars, OtherVars>>

\* a LogMsg is received and processed by Update; the line is identified by
\* its arrival number
ScrollLogMsg ==
    /\ n < MaxMsgs
    /\ m' = appendLog(m, n + 1)
    /\ n' = n + 1
    /\ UNCHANGED <<msgs, cmds, disk, quit, PollerVars, OtherVars>>

NextScroll == ScrollFirstSize \/ ScrollLogMsg \/ UpdateScrollKey \/ UpdateMouseMsg

SpecScroll == InitScroll /\ [][NextScroll]_vars

(***************************************************************************)
(* Poll specification: one poll with every combination of query outcomes,  *)
(* its StatsMsg applied by Update and the model rendered by View           *)
(***************************************************************************)
MaxHeaderH == 2         \* rows of the rendered header (it wraps when narrow)

\* the model after the first WindowSizeMsg, with the poll of Init in flight
InitPoll ==
    /\ disk \in DiskStates
    /\ m = [initialModel(disk) EXCEPT !.width = 80, !.height = 24]
    /\ n = 0
    /\ msgs = NoMsgs
    /\ timers = {}
    /\ polls = {1}
    /\ cmds = <<>>
    /\ quit = FALSE
    /\ hist = [ticks |-> 0, timers |-> 0, polls |-> 1, stats |-> 0, lines |-> 0]
    /\ q \in QueryOutcomes
    /\ pc = "polling"
    /\ frame = NoFrame
    /\ fol = NoFol
    /\ lay = NoLay

\* fetchStats returns and its StatsMsg is sent
PollFetch ==
    /\ pc = "polling"
    /\ \E p \in polls :
          /\ polls' = polls \ {p}
          /\ msgs' = [msgs EXCEPT !.stats = @ \cup {[id |-> p, body |-> fetchStats(q)]}]
    /\ hist' = [hist EXCEPT !.stats = @ + 1]
    /\ pc' = "fetched"
    /\ UNCHANGED <<m, n, timers, cmds, disk, quit, q, frame, fol, lay>>

\* Update, case StatsMsg
PollApply ==
    /\ pc = "fetched"
    /\ \E s \in msgs.stats :
          /\ msgs' = [msgs EXCEPT !.stats = @ \ {s}]
          /\ m' = applyStats(m, s.body, disk)
    /\ pc' = "applied"
    /\ UNCHANGED <<n, timers, polls, cmds, disk, quit, hist, q, frame, fol, lay>>

PollView ==
    /\ pc = "applied"
    /\ \E hh \in 1..MaxHeaderH : frame' = View(m, hh)
    /\ pc' = "rendered"
    /\ UNCHANGED <<m, n, msgs, timers, polls, cmds, disk, quit, hist, q, fol, lay>>

NextPoll == PollFetch \/ PollApply \/ PollView

SpecPoll == InitPoll /\ [][NextPoll]_vars

(***************************************************************************)
(* Events specification: Update applied to one event of every kind, in any *)
(* order, on a model whose log buffer is longer than the log panel         *)
(***************************************************************************)
MaxEventLogs == 20      \* lines in the log buffer when the events arrive

\* a restart's `env down` has finished; its restartUpMsg, a TickMsg, a
\* StatsMsg and a LogMsg are waiting to be received
InitEvents ==
    /\ disk \in DiskStates
    /\ m = [initialModel(disk) EXCEPT !.width = 80, !.height = 24,
                                      !.logs = [i \in 1..MaxEventLogs |-> i]]
    /\ n = MaxEventLogs
    /\ msgs = [tick |-> {1}, stats |-> {[id |-> 1, body |-> fetchStats(AllOk)]},
               log |-> {[text |-> "[docker] line", id |-> 1]}, exec |-> {},
               up |-> {[rid |-> 1, upArgs |-> handleRestart(m)[1].upArgs]}]
    /\ timers = {}
    /\ polls = {}
    /\ cmds = <<[kind |-> "restartDown", upArgs |-> handleRestart(m)[1].upArgs,
                 rid |-> 1, st |-> "ok"]>>
    /\ quit = FALSE
    /\ hist = [ticks |-> 0, timers |-> 1, polls |-> 1, stats |-> 1, lines |-> 1]
    /\ q = AllOk
    /\ pc = "run"
    /\ frame = NoFrame
    /\ fol = NoFol
    /\ lay = NoLay

NextEvents ==
    \/ UpdateMouseMsg \/ UpdateScrollKey \/ UpdateQuitKey \/ UpdateCommandKey
    \/ UpdateWindowSizeMsg \/ UpdateTickMsg \/ UpdateStatsMsg \/ UpdateRestartUpMsg
    \/ UpdateLogMsg

SpecEvents == InitEvents /\ [][NextEvents]_vars

(***************************************************************************)
(* Hang specification: the goroutine of one poll walks through the         *)
(* queries of fetchStats while one external source may never respond.      *)
(* http.Client{Timeout: 1s} ends a client.Do that got no answer with an    *)
(* error; exec.Command(...).Output() returns when the process exits.       *)
(***************************************************************************)
HangSources == {"stats", "cp", "tx", "ep", "recent", "derive", "events"}

\* the answers the sources would give, and the source that never responds
HangQueries ==
    {[f \in DOMAIN qq \cup {"hang"} |-> IF f = "hang" THEN h ELSE qq[f]] :
        qq \in {AllOk, AllFail, [AllOk EXCEPT !.manifest = ManifestErr],
                [AllFail EXCEPT !.envfile = AllOk.envfile]},
        h \in HangSources \cup {"none"}}

\* what client.Do leaves of a query when the client's Timeout ends it
Timeout(k) ==
    CASE k \in {"cp", "tx"} -> RpcErr
      [] k = "ep"           -> EpochErr
      [] k = "recent"       -> RecentErr
      [] k = "events"       -> EventsErr

\* buildAddresses calls deriveAddress for the private keys of the .env file
CallsDerive(qq) ==
    LET ev == extractEnvVars(qq.envfile)
    IN  HasKey(ev, "PLAYER_A_PRIVATE_KEY") \/ HasKey(ev, "PLAYER_B_PRIVATE_KEY")

\* fetchStats queries the events when the package id and the admin are known
CallsEvents(qq) ==
    extractWorldObjects(qq.manifest).pkgID # "" /\ AdminKnown(extractAdmin(qq.envfile))

InitHang ==
    /\ disk \in DiskStates
    /\ m = [initialModel(disk) EXCEPT !.width = 80, !.height = 24]
    /\ n = 0
    /\ msgs = NoMsgs
    /\ timers = {}
    /\ polls = {1}
    /\ cmds = <<>>
    /\ quit = FALSE
    /\ hist = [ticks |-> 0, timers |-> 0, polls |-> 1, stats |-> 0, lines |-> 0]
    /\ q \in HangQueries
    /\ pc = "stats"
    /\ frame = NoFrame
    /\ fol = NoFol
    /\ lay = NoLay

\* parseContainerStats: Output() of `engine stats --no-stream`, no deadline
HangStats ==
    /\ pc = "stats"
    /\ q.hang # "stats"
    /\ pc' = "cp"
    /\ UNCHANGED <<m, n, msgs, timers, polls, cmds, disk, quit, hist, q, frame, fol, lay>>

\* fetchChainInfo: four client.Do calls, each ended by the client's Timeout
HangRpc ==
    /\ pc \in {"cp", "tx", "ep", "recent"}
    /\ q' = IF q.hang = pc THEN [q EXCEPT ![pc] = Timeout(pc)] ELSE q
    /\ pc' = CASE pc = "cp" -> "tx" [] pc = "tx" -> "ep" [] pc = "ep" -> "recent"
               [] pc = "recent" -> "files"
    /\ UNCHANGED <<m, n, msgs, timers, polls, cmds, disk, quit, hist, frame, fol, lay>>

\* extractWorldObjects, extractAdmin, extractEnvVars: os.ReadFile of local files
HangFiles ==
    /\ pc = "files"
    /\ pc' = IF CallsDerive(q) THEN "derive" ELSE IF CallsEvents(q) THEN "events" ELSE "send"
    /\ UNCHANGED <<m, n, msgs, timers, polls, cmds, disk, quit, hist, q, frame, fol, lay>>

\* deriveAddress: Output() of `sui keytool import`, no deadline
HangDerive ==
    /\ pc = "derive"
    /\ q.hang # "derive"
    /\ pc' = IF CallsEvents(q) THEN "events" ELSE "send"
    /\ UNCHANGED <<m, n, msgs, timers, polls, cmds, disk, quit, hist, q, frame, fol, lay>>

\* fetchWorldEvents: client.Do ended by the client's Timeout
HangEvents ==
    /\ pc = "events"
    /\ q' = IF q.hang = "events" THEN [q EXCEPT !.events = Timeout("events")] ELSE q
    /\ pc' = "send"
    /\ UNCHANGED <<m, n, msgs, timers, polls, cmds, disk, quit, hist, frame, fol, lay>>

\* fetchStats returns and the command's StatsMsg is delivered
HangSend ==
    /\ pc = "send"
    /\ \E p \in polls :
          /\ polls' = polls \ {p}
          /\ msgs' = [msgs EXCEPT !.stats = @ \cup {[id |-> p, body |-> fetchStats(q)]}]
    /\ hist' = [hist EXCEPT !.stats = @ + 1]
    /\ pc' = "fetched"
    /\ UNCHANGED <<m, n, timers, cmds, disk, quit, q, frame, fol, lay>>

NextHang ==
    \/ HangStats \/ HangRpc \/ HangFiles \/ HangDerive \/ HangEvents \/ HangSend
    \/ PollApply

\* the goroutine of the command and the event loop keep running
SpecHang == InitHang /\ [][NextHang]_vars /\ WF_vars(NextHang)

(***************************************************************************)
(* View specification: View applied to the model states Update can produce *)
(***************************************************************************)
MaxViewLogs == 8        \* log lines in the buffer when View is called

ViewSizes == {<<0, 0>>, <<80, 10>>, <<80, 24>>, <<120, 30>>}

\* the model after l log lines, a WindowSizeMsg, scrolling back by s lines
\* and a snapshot with or without world events
ViewModel(l, sz, s, ev) ==
    [initialModel([readable |-> FALSE, gql |-> FALSE, fe |-> FALSE])
       EXCEPT !.logs = [i \in 1..l |-> i], !.width = sz[1], !.height = sz[2],
              !.logScroll = s, !.worldEvents = ev]

InitView ==
    /\ disk = [readable |-> FALSE, gql |-> FALSE, fe |-> FALSE]
    /\ \E l \in 0..MaxViewLogs, sz \in ViewSizes, ev \in {<<>>, <<"0xPKG">>} :
          \E s \in 0..max(0, l - 3) :
             /\ m = ViewModel(l, sz, s, ev)
             /\ n = l
    /\ msgs = NoMsgs
    /\ timers = {}
    /\ polls = {}
    /\ cmds = <<>>
    /\ quit = FALSE
    /\ hist = [ticks |-> 0, timers |-> 0, polls |-> 0, stats |-> 0, lines |-> 0]
    /\ q = AllFail
    /\ pc = "dirty"
    /\ frame = NoFrame
    /\ fol = NoFol
    /\ lay = NoLay

ViewRender ==
    /\ pc = "dirty"
    /\ \E hh \in 1..MaxHeaderH : frame' = View(m, hh)
    /\ pc' = "rendered"
    /\ UNCHANGED <<m, n, msgs, timers, polls, cmds, disk, quit, hist, q, fol, lay>>

NextView == ViewRender

SpecView == InitView /\ [][NextView]_vars

(***************************************************************************)
(* Log followers: collectLogs starts three streamContainerLogs followers   *)
(* and the deploy.log follower; each forwards its lines with p.Send        *)
(***************************************************************************)
MaxFolLines == 3        \* lines the log sources produce per run

MaxStallCmds == 1       \* env down commands issued while the followers run

TailLines == 1          \* lines left to read after file.Seek(-2048, 2)

\* the prefixes collectLogs passes to streamContainerLogs, in call order
Containers == <<"[docker]", "[db]", "[frontend]">>

ContainerSet == {Containers[i] : i \in 1..3}

DeployLog == "[deploy]"

Followers == ContainerSet \cup {DeployLog}

\* streamContainerLogs: cmd.Start fails once ctx is done; when it succeeds the
\* scanner goroutine reads the output of `logs -f`, which is attached to the
\* container only if the container exists
streamContainerLogs(ctxDone, up, startOk) ==
    IF startOk /\ ~ctxDone THEN [pc |-> "scan", att |-> up]
    ELSE [pc |-> "done", att |-> FALSE]

\* the select at the top of the outer loop of the deploy.log follower
fileOuterSelect(ctxDone, statOk, openOk) ==
    IF ctxDone THEN "done"
    ELSE IF statOk /\ openOk THEN "inner" ELSE "outer"

\* variant of the inner select that has no ctx.Done case
fileInnerSelect_noCancel(ctxDone) == "read"

\* the select at the top of the read loop of the deploy.log follower
fileInnerSelect(ctxDone) == IF ctxDone THEN "done" ELSE "read"

\* where a follower continues once p.Send has returned
afterSend(f) == IF f = DeployLog THEN "inner" ELSE "scan"

InitFollow ==
    /\ disk = [readable |-> FALSE, gql |-> FALSE, fe |-> FALSE]
    /\ m = [initialModel(disk) EXCEPT !.width = 80, !.height = 24]
    /\ n = 0
    /\ msgs = NoMsgs
    /\ timers = {}
    /\ polls = {}
    /\ cmds = <<>>
    /\ quit = FALSE
    /\ hist = [ticks |-> 0, timers |-> 0, polls |-> 0, stats |-> 0, lines |-> 0]
    /\ q = AllFail
    /\ pc = "run"
    /\ frame = NoFrame
    /\ lay = NoLay
    /\ \E up \in BOOLEAN :
          fol = [ collect |-> 1,
                  ctx |-> FALSE,
                  up |-> up,
                  pc |-> [f \in Followers |-> "idle"],
                  att |-> [c \in ContainerSet |-> FALSE],
                  saw |-> FALSE,
                  file |-> [exists |-> FALSE, lines |-> 0, pos |-> 0],
                  made |-> 0 ]

FolVars == <<msgs, timers, polls, cmds, disk, quit, hist, q, pc, frame, lay>>

\* collectLogs calls streamContainerLogs for the next container
FolStart ==
    /\ fol.collect \in 1..3
    /\ \E startOk \in BOOLEAN :
          LET c == Containers[fol.collect]
              r == streamContainerLogs(fol.ctx, fol.up, startOk)
          IN  fol' = [fol EXCEPT !.collect = @ + 1, !.pc[c] = r.pc, !.att[c] = r.att]
    /\ UNCHANGED <<m, n, FolVars>>

\* collectLogs starts the deploy.log goroutine and returns
FolStartFile ==
    /\ fol.collect = 4
    /\ fol' = [fol EXCEPT !.collect = 5, !.pc[DeployLog] = "outer"]
    /\ UNCHANGED <<m, n, FolVars>>

\* scanner.Scan returns a line, or false once the stream is closed (the
\* container is gone or the process was killed by the cancelled context);
\* then cmd.Wait reclaims the process and the goroutine ends
ProcScan(c) ==
    /\ fol.pc[c] = "scan"
    /\ \/ /\ fol.att[c] /\ ~fol.ctx
          /\ fol.made < MaxFolLines
          /\ fol' = [fol EXCEPT !.pc[c] = "send", !.made = @ + 1]
       \/ /\ ~fol.att[c] \/ fol.ctx
          /\ fol' = [fol EXCEPT !.pc[c] = "done"]
    /\ UNCHANGED <<m, n, FolVars>>

\* p.Send hands the line to the event loop, which passes it to Update
FolDeliver(f) ==
    /\ fol.pc[f] = "send"
    /\ Running
    /\ m' = appendLog(m, [text |-> f, id |-> 0])
    /\ n' = n + 1
    /\ fol' = [fol EXCEPT !.pc[f] = afterSend(f)]
    /\ UNCHANGED FolVars

\* p.Send returns without delivering once the program has finished
FolSendAbort(f) ==
    /\ fol.pc[f] = "send"
    /\ quit
    /\ fol' = [fol EXCEPT !.pc[f] = afterSend(f)]
    /\ UNCHANGED <<m, n, FolVars>>

\* os.Stat and os.Open succeed and the read loop starts, or the follower
\* sleeps 2 s and tries again
FileOuter ==
    /\ fol.pc[DeployLog] = "outer"
    /\ \E openOk \in BOOLEAN :
          LET nx == fileOuterSelect(fol.ctx, fol.file.exists, openOk)
          IN  fol' = [fol EXCEPT !.pc[DeployLog] = nx,
                                 !.saw = (nx = "done"),
                                 !.file.pos = IF nx = "inner" /\ fol.file.lines > TailLines
                                              THEN fol.file.lines - TailLines ELSE 0]
    /\ UNCHANGED <<m, n, FolVars>>

FileInner ==
    /\ fol.pc[DeployLog] = "inner"
    /\ fol' = [fol EXCEPT !.pc[DeployLog] = fileInnerSelect(fol.ctx),
                          !.saw = (fileInnerSelect(fol.ctx) = "done")]
    /\ UNCHANGED <<m, n, FolVars>>

\* reader.ReadString('\n'): a line, or an error at the end of the file,
\* after which the follower sleeps 500 ms and continues the loop
FileRead ==
    /\ fol.pc[DeployLog] = "read"
    /\ fol' = IF fol.file.pos < fol.file.lines
              THEN [fol EXCEPT !.pc[DeployLog] = "send", !.file.pos = @ + 1]
              ELSE [fol EXCEPT !.pc[DeployLog] = "inner"]
    /\ UNCHANGED <<m, n, FolVars>>

\* the deployment writes a line to deploy.log, creating the file if needed
FileAppend ==
    /\ fol.made < MaxFolLines
    /\ fol' = [fol EXCEPT !.file.exists = TRUE, !.file.lines = @ + 1, !.made = @ + 1]
    /\ UNCHANGED <<m, n, FolVars>>

\* env down (or the stop of a restart) removes the containers
ContainersRemoved ==
    /\ fol.up
    /\ fol' = [fol EXCEPT !.up = FALSE, !.att = [c \in ContainerSet |-> FALSE]]
    /\ UNCHANGED <<m, n, FolVars>>

\* env up creates the containers
ContainersCreated ==
    /\ ~fol.up
    /\ fol' = [fol EXCEPT !.up = TRUE]
    /\ UNCHANGED <<m, n, FolVars>>

\* p.Run has returned after tea.Quit and RunE returns: the deferred cancel()
\* fires the shared cancellation signal
Teardown ==
    /\ quit
    /\ ~fol.ctx
    /\ fol' = [fol EXCEPT !.ctx = TRUE]
    /\ UNCHANGED <<m, n, FolVars>>

NextFollow ==
    \/ FolStart \/ FolStartFile
    \/ (\E c \in ContainerSet : ProcScan(c))
    \/ (\E f \in Followers : FolDeliver(f))
    \/ (\E f \in Followers : FolSendAbort(f))
    \/ FileOuter \/ FileInner \/ FileRead
    \/ FileAppend \/ ContainersRemoved \/ ContainersCreated
    \/ UpdateQuitKey \/ Teardown

SpecFollow == InitFollow /\ [][NextFollow]_vars

\* the followers while env down commands run: tea.ExecProcess keeps the
\* event loop inside p.exec until the command has exited
\* handleKeyMsg, key d
UpdateEnvDownKey ==
    /\ Running
    /\ Len(cmds) < MaxStallCmds
    /\ Issue(handleEnvDown(m), 0)
    /\ UNCHANGED <<m, n, disk, quit, PollerVars, OtherVars>>

\* collectLogs has returned: the three container followers are attached and
\* the deploy.log follower is polling for its file
InitStall ==
    /\ disk = [readable |-> FALSE, gql |-> FALSE, fe |-> FALSE]
    /\ m = [initialModel(disk) EXCEPT !.width = 80, !.height = 24]
    /\ n = 0
    /\ msgs = NoMsgs
    /\ timers = {}
    /\ polls = {}
    /\ cmds = <<>>
    /\ quit = FALSE
    /\ hist = [ticks |-> 0, timers |-> 0, polls |-> 0, stats |-> 0, lines |-> 0]
    /\ q = AllFail
    /\ pc = "run"
    /\ frame = NoFrame
    /\ lay = NoLay
    /\ fol = [ collect |-> 5,
               ctx |-> FALSE,
               up |-> TRUE,
               pc |-> [f \in Followers |-> IF f = DeployLog THEN "outer" ELSE "scan"],
               att |-> [c \in ContainerSet |-> TRUE],
               saw |-> FALSE,
               file |-> [exists |-> FALSE, lines |-> 0, pos |-> 0],
               made |-> 0 ]

NextStall ==
    \/ UpdateEnvDownKey \/ UpdateLogMsg \/ ExecStart \/ ExecDone
    \/ (\E c \in ContainerSet : ProcScan(c))
    \/ (\E f \in Followers : FolDeliver(f))
    \/ FileOuter \/ FileInner \/ FileRead \/ FileAppend

SpecStall == InitStall /\ [][NextStall]_vars

\* every follower goroutine is scheduled, and RunE runs its deferred cancel
SpecFollowFair ==
    /\ InitFollow /\ [][NextFollow]_vars
    /\ WF_vars(FolStart) /\ WF_vars(FolStartFile)
    /\ \A c \in ContainerSet : WF_vars(ProcScan(c))
    /\ \A f \in Followers : WF_vars(FolSendAbort(f))
    /\ WF_vars(FileOuter) /\ WF_vars(FileInner) /\ WF_vars(FileRead)
    /\ WF_vars(Teardown)

(***************************************************************************)
(* Tail specification: the read loop of the deploy.log follower on a file  *)
(* whose writer appends a line at once or in two writes.  The file is the  *)
(* sequence of the pieces written: <<line number, "whole">>, or <<line     *)
(* number, "head">> followed later by <<line number, "tail">>; "whole" and *)
(* "tail" end with the newline.                                            *)
(***************************************************************************)
MaxTailLines == 3       \* lines the deployment writes to deploy.log

\* reader.ReadString('\n') from offset pos: the pieces up to the first
\* newline, or at the end of the file the pieces read so far and io.EOF;
\* either way the reader has consumed what it returns
ReadString(data, pos) ==
    LET ks == {k \in (pos + 1)..Len(data) : data[k][2] # "head"}
    IN  IF ks = {}
        THEN [line |-> SubSeq(data, pos + 1, Len(data)), err |-> TRUE, pos |-> Len(data)]
        ELSE LET k == CHOOSE x \in ks : \A y \in ks : x <= y
             IN  [line |-> SubSeq(data, pos + 1, k), err |-> FALSE, pos |-> k]

\* the follower has opened deploy.log and is at the select of its read loop
InitTail ==
    /\ disk = [readable |-> FALSE, gql |-> FALSE, fe |-> FALSE]
    /\ m = [initialModel(disk) EXCEPT !.width = 80, !.height = 24]
    /\ n = 0
    /\ msgs = NoMsgs
    /\ timers = {}
    /\ polls = {}
    /\ cmds = <<>>
    /\ quit = FALSE
    /\ hist = [ticks |-> 0, timers |-> 0, polls |-> 0, stats |-> 0, lines |-> 0]
    /\ q = AllFail
    /\ pc = "run"
    /\ frame = NoFrame
    /\ lay = NoLay
    /\ fol = [ collect |-> 5,
               ctx |-> FALSE,
               up |-> FALSE,
               pc |-> [f \in Followers |-> IF f = DeployLog THEN "inner" ELSE "done"],
               att |-> [c \in ContainerSet |-> FALSE],
               saw |-> FALSE,
               file |-> [exists |-> TRUE, data |-> <<>>, pos |-> 0],
               line |-> <<>>,
               made |-> 0,
               open |-> FALSE ]

\* the deployment writes the next line at once, or its first part, or the
\* rest of the line it has begun
TailWrite ==
    /\ \/ /\ ~fol.open /\ fol.made < MaxTailLines
          /\ \E piece \in {"whole", "head"} :
                fol' = [fol EXCEPT !.file.data = Append(@, <<fol.made + 1, piece>>),
                                   !.made = @ + 1, !.open = (piece = "head")]
       \/ /\ fol.open
          /\ fol' = [fol EXCEPT !.file.data = Append(@, <<fol.made, "tail">>),
                                !.open = FALSE]
    /\ UNCHANGED <<m, n, FolVars>>

\* line, err := reader.ReadString('\n'); on an error the follower sleeps
\* 500 ms and continues the loop, dropping what ReadString returned
TailRead ==
    /\ fol.pc[DeployLog] = "read"
    /\ LET r == ReadString(fol.file.data, fol.file.pos)
       IN  fol' = IF r.err
                  THEN [fol EXCEPT !.pc[DeployLog] = "inner", !.file.pos = r.pos]
                  ELSE [fol EXCEPT !.pc[DeployLog] = "send", !.file.pos = r.pos,
                                   !.line = r.line]
    /\ UNCHANGED <<m, n, FolVars>>

\* p.Send(LogMsg("[deploy] " + line)) and Update, case LogMsg
TailDeliver ==
    /\ fol.pc[DeployLog] = "send"
    /\ Running
    /\ m' = appendLog(m, [text |-> DeployLog, id |-> 0, line |-> fol.line])
    /\ n' = n + 1
    /\ fol' = [fol EXCEPT !.pc[DeployLog] = afterSend(DeployLog)]
    /\ UNCHANGED FolVars

NextTail == TailWrite \/ FileInner \/ TailRead \/ TailDeliver

SpecTail == InitTail /\ [][NextTail]_vars

(***************************************************************************)
(* Layout (pkg/dashboard/border.go).  A string is the sequence of its      *)
(* cells: "tl" "tr" "ml" "mr" "bl" "br" are the corner and side glyphs,    *)
(* "dash" the horizontal line, "bar" the vertical line, "tee" "cross" "up" *)
(* the junction glyphs, "sp" a space, "t" a title or footer rune, "a" a    *)
(* content rune, "W" a content rune two columns wide, "L" a logo rune      *)
(***************************************************************************)
MaxBorderW == 8         \* leftW / rightW / totalW of a border call
MaxTitleW == 4          \* width of a title or footer of a border call
MaxPadLines == 2        \* lines handed to PadLines
MaxPadRows == 3         \* targetRows of a PadLines call
MaxPadW == 4            \* innerW of a PadLines call
MaxOverlayW == 8        \* innerW of an OverlayLogo call
MaxOverlayLines == 3    \* lines handed to OverlayLogo
MaxLogoW == 2           \* width of the logo of an OverlayLogo call
MaxLogoH == 2           \* height of the logo of an OverlayLogo call

\* lipgloss.Width
Width(s) == Len(s) + Cardinality({i \in 1..Len(s) : s[i] = "W"})

\* strings.Repeat(g, k), which panics when k is negative
Repeat(g, k) == [i \in 1..k |-> g]

\* a title or footer w columns wide
Title(w) == Repeat("t", w)

TruncateToWidth(s, maxW) ==
    IF Width(s) <= maxW THEN s
    ELSE LET ks     == {k \in 1..Len(s) : Width(SubSeq(s, 1, k)) >= maxW}
             k      == IF ks = {} THEN Len(s)
                       ELSE CHOOSE x \in ks : \A y \in ks : x <= y
             result == SubSeq(s, 1, k)
             w      == Width(result)
         IN  IF w < maxW THEN result \o Repeat("sp", maxW - w) ELSE result

\* lipgloss renders n lines of content into n lines of innerW columns (a
\* line that wraps adds lines, which PadLines cuts off)
RenderToLines(nlines, innerW) == [i \in 1..nlines |-> Repeat("a", innerW)]

PadLines(lines, targetRows, innerW) ==
    LET cut       == IF Len(lines) > targetRows THEN Slice(lines, 0, targetRows) ELSE lines
        emptyLine == Repeat("sp", innerW)
        filled    == cut \o [i \in 1..(targetRows - Len(cut)) |-> emptyLine]
    IN  [i \in 1..Len(filled) |->
            IF Width(filled[i]) < innerW
            THEN filled[i] \o Repeat("sp", innerW - Width(filled[i]))
            ELSE filled[i]]

\* variant of BuildTopBorder that does not clamp its dash runs
BuildTopBorder_noClamp(leftW, rightW, leftTitle, rightTitle) ==
    LET ld == leftW - 3 - Width(leftTitle)
        rd == rightW - 3 - Width(rightTitle)
    IN  [ s |-> <<"tl", "dash", "sp">> \o leftTitle \o <<"sp">> \o Repeat("dash", ld)
                  \o <<"tee", "dash", "sp">> \o rightTitle \o <<"sp">>
                  \o Repeat("dash", rd) \o <<"tr">>,
          runs |-> <<ld, rd>> ]

\* each border function returns its string s and the counts it passed to
\* strings.Repeat
BuildTopBorder(leftW, rightW, leftTitle, rightTitle) ==
    LET ltw == Width(leftTitle)
        rtw == Width(rightTitle)
        ld  == IF leftW - 3 - ltw < 0 THEN 0 ELSE leftW - 3 - ltw
        rd  == IF rightW - 3 - rtw < 0 THEN 0 ELSE rightW - 3 - rtw
    IN  [ s |-> <<"tl", "dash", "sp">> \o leftTitle \o <<"sp">> \o Repeat("dash", ld)
                  \o <<"tee", "dash", "sp">> \o rightTitle \o <<"sp">>
                  \o Repeat("dash", rd) \o <<"tr">>,
          runs |-> <<ld, rd>> ]

BuildLeftMidBorder(leftW, title) ==
    LET tw == Width(title)
        d  == IF leftW - 3 - tw < 0 THEN 0 ELSE leftW - 3 - tw
    IN  [ s |-> <<"ml", "dash", "sp">> \o title \o <<"sp">> \o Repeat("dash", d) \o <<"mr">>,
          runs |-> <<d>> ]

\* variant of BuildMiddleBorder whose junction is one column to the right
BuildMiddleBorder_shifted(totalW, leftW, title) ==
    LET tw          == Width(title)
        totalDashes == IF totalW - 5 - tw < 0 THEN 0 ELSE totalW - 5 - tw
        junction    == leftW - 2 - tw
    IN  IF junction >= 0 /\ junction < totalDashes
        THEN [ s |-> <<"ml", "dash", "sp">> \o title \o <<"sp">> \o Repeat("dash", junction)
                       \o <<"up">> \o Repeat("dash", totalDashes - junction - 1) \o <<"mr">>,
               runs |-> <<junction, totalDashes - junction - 1>> ]
        ELSE [ s |-> <<"ml", "dash", "sp">> \o title \o <<"sp">>
                       \o Repeat("dash", totalDashes) \o <<"mr">>,
               runs |-> <<totalDashes>> ]

BuildMiddleBorder(totalW, leftW, title) ==
    LET tw          == Width(title)
        totalDashes == IF totalW - 5 - tw < 0 THEN 0 ELSE totalW - 5 - tw
        junction    == leftW - 3 - tw
    IN  IF junction >= 0 /\ junction < totalDashes
        THEN [ s |-> <<"ml", "dash", "sp">> \o title \o <<"sp">> \o Repeat("dash", junction)
                       \o <<"up">> \o Repeat("dash", totalDashes - junction - 1) \o <<"mr">>,
               runs |-> <<junction, totalDashes - junction - 1>> ]
        ELSE [ s |-> <<"ml", "dash", "sp">> \o title \o <<"sp">>
                       \o Repeat("dash", totalDashes) \o <<"mr">>,
               runs |-> <<totalDashes>> ]

BuildBottomBorder(totalW, footer) ==
    LET fw == Width(footer)
        d  == IF totalW - 5 - fw < 0 THEN 0 ELSE totalW - 5 - fw
    IN  [ s |-> <<"bl", "dash", "sp">> \o footer \o <<"sp">> \o Repeat("dash", d) \o <<"br">>,
          runs |-> <<d>> ]

BuildFullBorder(totalW, title) ==
    LET tw == Width(title)
        d  == IF totalW - 5 - tw < 0 THEN 0 ELSE totalW - 5 - tw
    IN  [ s |-> <<"ml", "dash", "sp">> \o title \o <<"sp">> \o Repeat("dash", d) \o <<"mr">>,
          runs |-> <<d>> ]

BuildSplitMiddleBorder(leftW, rightW, leftTitle, rightTitle) ==
    LET ltw == Width(leftTitle)
        rtw == Width(rightTitle)
        ld  == IF leftW - 3 - ltw < 0 THEN 0 ELSE leftW - 3 - ltw
        rd  == IF rightW - 3 - rtw < 0 THEN 0 ELSE rightW - 3 - rtw
    IN  [ s |-> <<"ml", "dash", "sp">> \o leftTitle \o <<"sp">> \o Repeat("dash", ld)
                  \o <<"cross", "dash", "sp">> \o rightTitle \o <<"sp">>
                  \o Repeat("dash", rd) \o <<"mr">>,
          runs |-> <<ld, rd>> ]

BuildBottomBorderWithJunction(totalW, leftW, footer) ==
    LET fw          == Width(footer)
        totalDashes == IF totalW - 5 - fw < 0 THEN 0 ELSE totalW - 5 - fw
        junction    == leftW - 3 - fw
    IN  IF junction >= 0 /\ junction < totalDashes
        THEN [ s |-> <<"bl", "dash", "sp">> \o footer \o <<"sp">> \o Repeat("dash", junction)
                       \o <<"up">> \o Repeat("dash", totalDashes - junction - 1) \o <<"br">>,
               runs |-> <<junction, totalDashes - junction - 1>> ]
        ELSE [ s |-> <<"bl", "dash", "sp">> \o footer \o <<"sp">>
                       \o Repeat("dash", totalDashes) \o <<"br">>,
               runs |-> <<totalDashes>> ]

\* RenderLogo: the logo of h rows, every row w columns wide (pterm pads the
\* rows of its big letters to one width)
RenderLogo(w, h) == [i \in 1..h |-> Repeat("L", w)]

\* variant of OverlayLogo without the padding after the logo
OverlayLogo_noPad(logLines, innerW, logo) ==
    LET logoW == Width(logo[1])
        logoH == Len(logo)
    IN  IF Len(logLines) < logoH \/ innerW < logoW + 4 THEN logLines
        ELSE [row \in 1..Len(logLines) |->
                IF row <= Len(logLines) - logoH THEN logLines[row]
                ELSE LET line     == logLines[row]
                         padLeft  == IF innerW - logoW - 2 < 0 THEN 0
                                     ELSE innerW - logoW - 2
                         leftPart == IF Width(line) >= padLeft
                                     THEN TruncateToWidth(line, padLeft)
                                     ELSE Repeat("sp", padLeft)
                     IN  leftPart \o logo[row - (Len(logLines) - logoH)]]

\* logo is RenderLogo(), which the code reads from the package variable
\* efctlLogoLines
OverlayLogo(logLines, innerW, logo) ==
    LET logoW == Width(logo[1])
        logoH == Len(logo)
    IN  IF Len(logLines) < logoH \/ innerW < logoW + 4 THEN logLines
        ELSE [row \in 1..Len(logLines) |->
                IF row <= Len(logLines) - logoH THEN logLines[row]
                ELSE LET line     == logLines[row]
                         padLeft  == IF innerW - logoW - 2 < 0 THEN 0
                                     ELSE innerW - logoW - 2
                         leftPart == IF Width(line) >= padLeft
                                     THEN TruncateToWidth(line, padLeft)
                                     ELSE Repeat("sp", padLeft)
                         combined == leftPart \o logo[row - (Len(logLines) - logoH)]
                         cw       == Width(combined)
                     IN  IF cw < innerW THEN combined \o Repeat("sp", innerW - cw)
                         ELSE combined]

(***************************************************************************)
(* FormatAge: a duration of whole seconds to a short string, returned as   *)
(* the number and the unit fmt.Sprintf puts after it                       *)
(***************************************************************************)
AgeSpread == 70         \* seconds drawn on each side of a unit boundary

\* variant of FormatAge whose cases compare with <=
FormatAge_inclusive(secs) ==
    CASE secs <= 60    -> [n |-> secs, unit |-> "s"]
      [] secs <= 3600  -> [n |-> secs \div 60, unit |-> "m"]
      [] secs <= 86400 -> [n |-> secs \div 3600, unit |-> "h"]
      [] OTHER         -> [n |-> (secs \div 3600) \div 24, unit |-> "d"]

\* int(d.Seconds()), int(d.Minutes()), int(d.Hours()), int(d.Hours()/24)
\* truncate the float64 quotient of a non-negative duration
FormatAge(secs) ==
    CASE secs < 60    -> [n |-> secs, unit |-> "s"]
      [] secs < 3600  -> [n |-> secs \div 60, unit |-> "m"]
      [] secs < 86400 -> [n |-> secs \div 3600, unit |-> "h"]
      [] OTHER        -> [n |-> secs \div 86400, unit |-> "d"]

\* durations around every unit boundary and around two days
AgeSeconds ==
    UNION {{b - AgeSpread + k : k \in 0..(2 * AgeSpread)} : b \in {60, 3600, 3700, 86400, 90000, 172800}}
      \cap Nat

(***************************************************************************)
(* Layout specification: each layout function applied to arguments drawn   *)
(* from bounded sets                                                       *)
(***************************************************************************)
BorderWidths == (-2)..MaxBorderW

Titles == {Title(w) : w \in 0..MaxTitleW}

\* content lines of up to three runes, narrow or wide
PadSamples ==
    {<<>>} \cup {<<x>> : x \in {"a", "W"}}
           \cup {<<x, y>> : x \in {"a", "W"}, y \in {"a", "W"}}
           \cup {<<x, y, z>> : x \in {"a", "W"}, y \in {"a", "W"}, z \in {"a", "W"}}

PadInputs ==
    UNION {[1..k -> PadSamples] : k \in 0..MaxPadLines}

\* lines w columns wide: narrow runes, wide runes first, or wide runes last
LinesOfWidth(w) ==
    { Repeat("a", w),
      Repeat("W", w \div 2) \o Repeat("a", w % 2),
      Repeat("a", w % 2) \o Repeat("W", w \div 2) }

LayCall(fn, args) == [fn |-> fn, args |-> args, st |-> "call", out |-> <<>>]

BorderCalls ==
    {LayCall(fn, <<a, b, t1, t2>>) :
        fn \in {"BuildTopBorder", "BuildSplitMiddleBorder"},
        a \in BorderWidths, b \in BorderWidths, t1 \in Titles, t2 \in Titles}
    \cup {LayCall(fn, <<a, b, t1>>) :
        fn \in {"BuildMiddleBorder", "BuildBottomBorderWithJunction"},
        a \in BorderWidths, b \in BorderWidths, t1 \in Titles}
    \cup {LayCall(fn, <<a, t1>>) :
        fn \in {"BuildLeftMidBorder", "BuildBottomBorder", "BuildFullBorder"},
        a \in BorderWidths, t1 \in Titles}

PadCalls ==
    {LayCall("PadLines", <<lines, rows, w>>) :
        lines \in PadInputs, rows \in 0..MaxPadRows, w \in 0..MaxPadW}

OverlayCalls ==
    UNION {{LayCall("OverlayLogo", <<lines, w, RenderLogo(lw, lh)>>) :
               lines \in UNION {[1..k -> LinesOfWidth(w)] : k \in 0..MaxOverlayLines},
               lw \in 1..MaxLogoW, lh \in 1..MaxLogoH} : w \in 0..MaxOverlayW}

InitLayout ==
    /\ disk = [readable |-> FALSE, gql |-> FALSE, fe |-> FALSE]
    /\ m = initialModel(disk)
    /\ n = 0
    /\ msgs = NoMsgs
    /\ timers = {}
    /\ polls = {}
    /\ cmds = <<>>
    /\ quit = FALSE
    /\ hist = [ticks |-> 0, timers |-> 0, polls |-> 0, stats |-> 0, lines |-> 0]
    /\ q = AllFail
    /\ pc = "run"
    /\ frame = NoFrame
    /\ fol = NoFol
    /\ lay \in BorderCalls \cup PadCalls \cup OverlayCalls
                 \cup {LayCall("FormatAge", <<secs>>) : secs \in AgeSeconds}

LayVars == <<m, n, msgs, timers, polls, cmds, disk, quit, hist, q, pc, frame, fol>>

Return(fn, out) ==
    /\ lay.fn = fn
    /\ lay.st = "call"
    /\ lay' = [lay EXCEPT !.st = "ret", !.out = out]
    /\ UNCHANGED LayVars

CallBuildTopBorder ==
    Return("BuildTopBorder",
           BuildTopBorder(lay.args[1], lay.args[2], lay.args[3], lay.args[4]))

CallBuildLeftMidBorder ==
    Return("BuildLeftMidBorder", BuildLeftMidBorder(lay.args[1], lay.args[2]))

CallBuildMiddleBorder ==
    Return("BuildMiddleBorder", BuildMiddleBorder(lay.args[1], lay.args[2], lay.args[3]))

CallBuildBottomBorder ==
    Return("BuildBottomBorder", BuildBottomBorder(lay.args[1], lay.args[2]))

CallBuildFullBorder ==
    Return("BuildFullBorder", BuildFullBorder(lay.args[1], lay.args[2]))

CallBuildSplitMiddleBorder ==
    Return("BuildSplitMiddleBorder",
           BuildSplitMiddleBorder(lay.args[1], lay.args[2], lay.args[3], lay.args[4]))

CallBuildBottomBorderWithJunction ==
    Return("BuildBottomBorderWithJunction",
           BuildBottomBorderWithJunction(lay.args[1], lay.args[2], lay.args[3]))

CallPadLines ==
    Return("PadLines", PadLines(lay.args[1], lay.args[2], lay.args[3]))

CallOverlayLogo ==
    Return("OverlayLogo", OverlayLogo(lay.args[1], lay.args[2], lay.args[3]))

CallFormatAge ==
    Return("FormatAge", FormatAge(lay.args[1]))

NextLayout ==
    \/ CallBuildTopBorder \/ CallBuildLeftMidBorder \/ CallBuildMiddleBorder
    \/ CallBuildBottomBorder \/ CallBuildFullBorder \/ CallBuildSplitMiddleBorder
    \/ CallBuildBottomBorderWithJunction \/ CallPadLines \/ CallOverlayLogo
    \/ CallFormatAge

SpecLayout == InitLayout /\ [][NextLayout]_vars

(***************************************************************************)
(* The frame View assembles: header, top section, bottom section.  Each    *)
(* line is recorded with its kind and, for a border, the width of the left *)
(* title or footer it was built with; "h" is a header cell                 *)
(***************************************************************************)
panelWidths(width) ==
    LET leftInner == max(GoDiv(width - 3, 2), 1)
    IN  [ leftInner |-> leftInner,
          rightInner |-> max(width - 3 - leftInner, 1),
          logInner |-> max(width - 2, 1) ]

\* columns of fmt.Sprintf("%d", k)
Digits(k) == IF k < 10 THEN 1 ELSE IF k < 100 THEN 2 ELSE 3

\* writeTopSection: "Services", "Chain", "Environment"
ServicesTitle == Title(8)

ChainTitle == Title(5)

EnvironmentTitle == Title(11)

\* writeBottomSection: "Logs * LIVE", "Logs || PAUSED (^%d lines)", and with
\* the events panel "Logs || PAUSED (^%d)"
logTitle(mm, hasEvents) ==
    IF mm.logScroll > 0
    THEN IF hasEvents THEN Title(17 + Digits(mm.logScroll))
         ELSE Title(23 + Digits(mm.logScroll))
    ELSE Title(11)

\* "World Events (%d)"
eventsTitle(mm) == Title(15 + Digits(Len(mm.worldEvents)))

\* the key help: 75 columns, plus "  [g] enable graphql" and
\* "  [f] enable frontend" while those are off
footerKeys(mm) ==
    Title(75 + (IF ~mm.graphqlOn THEN 20 ELSE 0) + (IF ~mm.frontendOn THEN 21 ELSE 0))

FrameLine(kind, s, tw) == [kind |-> kind, s |-> s, tw |-> tw]

writeTopSection(leftInner, rightInner, containerRows, envRows, containerLines, envLines, rightLines) ==
    <<FrameLine("top", BuildTopBorder(leftInner, rightInner, ServicesTitle, ChainTitle).s,
                Width(ServicesTitle))>>
    \o [i \in 1..containerRows |->
          FrameLine("row", <<"bar">> \o containerLines[i] \o <<"bar">>
                             \o rightLines[i] \o <<"bar">>, 0)]
    \o <<FrameLine("leftmid", BuildLeftMidBorder(leftInner, EnvironmentTitle).s
                                \o rightLines[containerRows + 1] \o <<"bar">>,
                   Width(EnvironmentTitle))>>
    \o [i \in 1..envRows |->
          FrameLine("row", <<"bar">> \o envLines[i] \o <<"bar">>
                             \o rightLines[containerRows + 1 + i] \o <<"bar">>, 0)]

writeBottomSection(mm, hasEvents, botRows, leftInner, rightInner, logLines, eventLines) ==
    IF hasEvents
    THEN <<FrameLine("split",
                     BuildSplitMiddleBorder(leftInner, rightInner, eventsTitle(mm),
                                            logTitle(mm, TRUE)).s,
                     Width(eventsTitle(mm)))>>
         \o [i \in 1..botRows |->
               FrameLine("row", <<"bar">> \o eventLines[i] \o <<"bar">>
                                  \o logLines[i] \o <<"bar">>, 0)]
         \o <<FrameLine("bottomj",
                        BuildBottomBorderWithJunction(mm.width, leftInner, footerKeys(mm)).s,
                        Width(footerKeys(mm)))>>
    ELSE <<FrameLine("mid", BuildMiddleBorder(mm.width, leftInner, logTitle(mm, FALSE)).s,
                     Width(logTitle(mm, FALSE)))>>
         \o [i \in 1..botRows |->
               FrameLine("row", <<"bar">> \o logLines[i] \o <<"bar">>, 0)]
         \o <<FrameLine("bottom", BuildBottomBorder(mm.width, footerKeys(mm)).s,
                        Width(footerKeys(mm)))>>

\* View past the "Initializing..." case; headerH is lipgloss.Height of the
\* header, whose lines lipgloss renders m.width columns wide
ViewFrame(mm, headerH, logo) ==
    LET pw            == panelWidths(mm.width)
        leftInner     == pw.leftInner
        rightInner    == pw.rightInner
        hasEvents     == Len(mm.worldEvents) > 0
        available     == mm.height - headerH
        containerRows == 4
        topRows       == max(GoDiv(available * 30, 100), 8)
        envRows       == max(topRows - containerRows - 1, 3)
        rightRows     == containerRows + envRows + 1
        botRows       == max(available - topRows - 3, 3)
        containerLines == PadLines(RenderToLines(3, leftInner), containerRows, leftInner)
        envLines      == PadLines(RenderToLines(6, leftInner), envRows, leftInner)
        rightLines    == PadLines(RenderToLines(rightRows, rightInner), rightRows, rightInner)
        logW          == IF hasEvents THEN rightInner ELSE pw.logInner
        eventLines    == PadLines(RenderToLines(Len(mm.worldEvents), leftInner),
                                  botRows, leftInner)
        visibleLogs   == renderBottomPanels(mm, botRows).visibleLogs
        logLines      == OverlayLogo(PadLines(RenderToLines(Len(visibleLogs), logW),
                                              botRows, logW), logW, logo)
    IN  [i \in 1..headerH |-> FrameLine("header", Repeat("h", mm.width), 0)]
        \o writeTopSection(leftInner, rightInner, containerRows, envRows,
                           containerLines, envLines, rightLines)
        \o writeBottomSection(mm, hasEvents, botRows, leftInner, rightInner,
                              logLines, eventLines)

MaxFrameLogs == 40      \* log lines in the buffer when the frame is rendered

FrameSizes == {<<5, 16>>, <<20, 16>>, <<80, 24>>, <<160, 30>>}

\* the "> EFCTL" big text: 6 rows of one width
efctlLogo == RenderLogo(50, 6)

InitFrame ==
    /\ disk \in DiskStates
    /\ \E sz \in FrameSizes, ev \in {<<>>, <<"0xPKG">>}, l \in {0, MaxFrameLogs} :
          \E s \in {0, 1, 12} :
             /\ s <= l
             /\ m = [initialModel(disk) EXCEPT !.logs = [i \in 1..l |-> i],
                        !.width = sz[1], !.height = sz[2],
                        !.logScroll = s, !.worldEvents = ev]
             /\ n = l
    /\ msgs = NoMsgs
    /\ timers = {}
    /\ polls = {}
    /\ cmds = <<>>
    /\ quit = FALSE
    /\ hist = [ticks |-> 0, timers |-> 0, polls |-> 0, stats |-> 0, lines |-> 0]
    /\ q = AllFail
    /\ pc = "dirty"
    /\ frame = NoFrame
    /\ fol = NoFol
    /\ \E hh \in 1..MaxHeaderH : lay = LayCall("View", <<hh, efctlLogo>>)

CallView ==
    /\ m.width # 0
    /\ Return("View", ViewFrame(m, lay.args[1], lay.args[2]))

NextFrame == CallView

SpecFrame == InitFrame /\ [][NextFrame]_vars

(***************************************************************************)
(* Log panel specification: renderBottomPanels on a buffer whose lines     *)
(* have a length, so that lipgloss wraps the ones longer than the panel    *)
(***************************************************************************)
MaxLiveLogs == 13       \* lines in the log buffer when the panel is rendered

ShortLine == 20         \* columns of a log line that fits the panel

LongLine == 100          \* columns of a log line that wraps

LiveSizes == {<<80, 24>>, <<40, 14>>}

\* the cells of a log line: each carries the arrival number of its line
LogCells(line) == Repeat(ToString(line.id), line.len)

\* lipgloss wraps a line at wrapAt columns: the rows it becomes
WrapLine(s, wrapAt) ==
    [k \in 1..max(1, (Len(s) + wrapAt - 1) \div wrapAt) |->
        SubSeq(s, (k - 1) * wrapAt + 1, min(k * wrapAt, Len(s)))]

RECURSIVE WrapAll(_, _)
WrapAll(content, wrapAt) ==
    IF content = <<>> THEN <<>>
    ELSE WrapLine(Head(content), wrapAt) \o WrapAll(Tail(content), wrapAt)

\* renderToLines of content given as its lines: Padding(0, 1).Width(innerW)
\* wraps at innerW - 2 and fills every row to innerW columns
RenderContent(content, innerW) ==
    LET rows == IF content = <<>> THEN << <<>> >> ELSE WrapAll(content, innerW - 2)
    IN  [i \in 1..Len(rows) |->
            <<"sp">> \o rows[i] \o Repeat("sp", innerW - 1 - Width(rows[i]))]

\* the log lines renderBottomPanels returns
renderLogLines(mm, botRows, logW, logo) ==
    LET visibleLogs == renderBottomPanels(mm, botRows).visibleLogs
        coloredLogs == [i \in 1..Len(visibleLogs) |-> LogCells(visibleLogs[i])]
    IN  OverlayLogo(PadLines(RenderContent(coloredLogs, logW), botRows, logW), logW, logo)

\* View down to renderBottomPanels
ViewLogPanel(mm, headerH, logo) ==
    LET pw        == panelWidths(mm.width)
        hasEvents == Len(mm.worldEvents) > 0
        available == mm.height - headerH
        topRows   == max(GoDiv(available * 30, 100), 8)
        botRows   == max(available - topRows - 3, 3)
        logW      == IF hasEvents THEN pw.rightInner ELSE pw.logInner
    IN  renderLogLines(mm, botRows, logW, logo)

\* live mode; at most one line of the buffer is longer than the panel
InitLive ==
    /\ disk = [readable |-> FALSE, gql |-> FALSE, fe |-> FALSE]
    /\ \E sz \in LiveSizes, l \in 1..MaxLiveLogs :
          \E long \in 0..l :
             /\ m = [initialModel(disk) EXCEPT
                        !.logs = [i \in 1..l |->
                                    [id |-> i, len |-> IF i = long THEN LongLine ELSE ShortLine]],
                        !.width = sz[1], !.height = sz[2]]
             /\ n = l
    /\ msgs = NoMsgs
    /\ timers = {}
    /\ polls = {}
    /\ cmds = <<>>
    /\ quit = FALSE
    /\ hist = [ticks |-> 0, timers |-> 0, polls |-> 0, stats |-> 0, lines |-> 0]
    /\ q = AllFail
    /\ pc = "dirty"
    /\ frame = NoFrame
    /\ fol = NoFol
    /\ \E hh \in 1..MaxHeaderH : lay = LayCall("renderBottomPanels", <<hh, efctlLogo>>)

CallRenderBottomPanels ==
    Return("renderBottomPanels", ViewLogPanel(m, lay.args[1], lay.args[2]))

NextLive == CallRenderBottomPanels

SpecLive == InitLive /\ [][NextLive]_vars

(***************************************************************************)
(* WaitForLogs (pkg/container): `engine logs -f` is started under the      *)
(* caller's context, a goroutine scans its output for the search string    *)
(* and reports on the channel done, and the caller selects on ctx.Done()   *)
(* and done.  fol holds the process, its pipe and the goroutine; lay holds *)
(* the call.                                                               *)
(***************************************************************************)
MaxWaitLines == 3       \* lines the container prints while WaitForLogs runs

\* what the container will print: lines with or without the search string
LogStreams == UNION {[1..k -> {"other", "ready"}] : k \in 0..MaxWaitLines}

WaitVars == <<m, n, msgs, timers, polls, cmds, disk, quit, hist, q, pc, frame>>

InitWait ==
    /\ disk = [readable |-> FALSE, gql |-> FALSE, fe |-> FALSE]
    /\ m = initialModel(disk)
    /\ n = 0
    /\ msgs = NoMsgs
    /\ timers = {}
    /\ polls = {}
    /\ cmds = <<>>
    /\ quit = FALSE
    /\ hist = [ticks |-> 0, timers |-> 0, polls |-> 0, stats |-> 0, lines |-> 0]
    /\ q = AllFail
    /\ pc = "run"
    /\ frame = NoFrame
    /\ lay = LayCall("WaitForLogs", <<"ready">>)
    /\ \E out \in LogStreams :
          fol = [collect |-> "idle", ctx |-> FALSE, proc |-> "none", out |-> out,
                 pipe |-> <<>>, scan |-> "idle", read |-> FALSE]

\* cmd.Start: it fails when the context is already done (or the engine
\* cannot be run); otherwise the process runs and the goroutine is started
WaitStart ==
    /\ lay.fn = "WaitForLogs" /\ lay.st = "call"
    /\ \E startOk \in BOOLEAN :
          IF startOk /\ ~fol.ctx
          THEN /\ lay' = [lay EXCEPT !.st = "select"]
               /\ fol' = [fol EXCEPT !.proc = "running", !.scan = "scan"]
          ELSE /\ lay' = [lay EXCEPT !.st = "ret", !.out = "start error"]
               /\ fol' = fol
    /\ UNCHANGED WaitVars

\* the process copies a line of the container's log to its stdout
LogsWrite ==
    /\ fol.proc = "running"
    /\ fol.out # <<>>
    /\ fol' = [fol EXCEPT !.pipe = Append(@, Head(fol.out)), !.out = Tail(@)]
    /\ UNCHANGED <<lay, WaitVars>>

\* the container stops and `logs -f` exits
LogsExit ==
    /\ fol.proc = "running"
    /\ fol' = [fol EXCEPT !.proc = "exited"]
    /\ UNCHANGED <<lay, WaitVars>>

\* the context expires; exec.CommandContext kills the process
CtxDone ==
    /\ ~fol.ctx
    /\ fol' = [fol EXCEPT !.ctx = TRUE,
                          !.proc = IF @ = "running" THEN "exited" ELSE @]
    /\ UNCHANGED <<lay, WaitVars>>

\* scanner.Scan: a line, tested with strings.Contains, or false at the end
\* of the stream
LogsScan ==
    /\ fol.scan = "scan"
    /\ \/ /\ fol.pipe # <<>>
          /\ fol' = [fol EXCEPT !.pipe = Tail(@),
                                !.scan = IF Head(fol.pipe) = lay.args[1] THEN "true" ELSE "scan",
                                !.read = @ \/ Head(fol.pipe) = lay.args[1]]
       \/ /\ fol.pipe = <<>> /\ fol.proc = "exited"
          /\ fol' = [fol EXCEPT !.scan = "false"]
    /\ UNCHANGED <<lay, WaitVars>>

\* select, case <-ctx.Done()
WaitSelectCtx ==
    /\ lay.fn = "WaitForLogs" /\ lay.st = "select"
    /\ fol.ctx
    /\ lay' = [lay EXCEPT !.st = "ret", !.out = "timeout"]
    /\ UNCHANGED <<fol, WaitVars>>

\* select, case found := <-done: the goroutine's send completes
WaitSelectDone ==
    /\ lay.fn = "WaitForLogs" /\ lay.st = "select"
    /\ fol.scan \in {"true", "false"}
    /\ lay' = IF fol.scan = "true" THEN [lay EXCEPT !.st = "wait"]
              ELSE [lay EXCEPT !.st = "ret", !.out = "exited before ready"]
    /\ fol' = [fol EXCEPT !.scan = "done"]
    /\ UNCHANGED WaitVars

\* cmd.Wait returns once the process has exited; then WaitForLogs returns nil
WaitReap ==
    /\ lay.fn = "WaitForLogs" /\ lay.st = "wait"
    /\ fol.proc = "exited"
    /\ lay' = [lay EXCEPT !.st = "ret", !.out = "nil"]
    /\ UNCHANGED <<fol, WaitVars>>

NextWait ==
    \/ WaitStart \/ LogsWrite \/ LogsExit \/ CtxDone \/ LogsScan
    \/ WaitSelectCtx \/ WaitSelectDone \/ WaitReap

SpecWait == InitWait /\ [][NextWait]_vars

(***************************************************************************)
(* Properties                                                              *)
(***************************************************************************)

\* C1: the env up command of a restart is issued only for a restart whose
\* env down command has completed successfully; a restart whose env down
\* failed has no restartUpMsg and no env up command.
RestartOrder ==
    \A i \in 1..Len(cmds) :
        /\ cmds[i].kind = "restartUp" =>
              /\ cmds[i].rid < i
              /\ cmds[cmds[i].rid].kind = "restartDown"
              /\ cmds[cmds[i].rid].st = "ok"
        /\ (cmds[i].kind = "restartDown" /\ cmds[i].st # "ok") =>
              /\ \A j \in 1..Len(cmds) : ~(cmds[j].kind = "restartUp" /\ cmds[j].rid = i)
              /\ \A u \in msgs.up : u.rid # i

\* one restart whose env down failed and another whose env up was issued
RestartOrderWitness ==
    \E i, j \in 1..Len(cmds) :
        /\ cmds[i].kind = "restartDown" /\ cmds[i].st = "failed"
        /\ cmds[j].kind = "restartUp" /\ cmds[j].st \in {"running", "ok", "failed"}

\* C2: the log buffer never exceeds 500 lines and holds the last min(n, 500)
\* of the n lines received, in arrival order.
LogBufferInv ==
    /\ Len(m.logs) <= 500
    /\ m.logs = [i \in 1..min(n, 500) |-> n - min(n, 500) + i]

\* more than 500 lines were received and the oldest ones were dropped
LogBufferWitness == n > 500 /\ Len(m.logs) = 500 /\ m.logs[1] = n - 499

\* C3: at a fixed terminal size, after any sequence of scroll commands and
\* log appends, 0 <= logScroll <= max(0, len(logs) - logViewportRows(height)).
ScrollInvFixedSize ==
    /\ 0 <= m.logScroll
    /\ m.logScroll <= max(0, Len(m.logs) - logViewportRows(m.height, Len(m.worldEvents)))

\* scrolled back to the oldest line of a full buffer, lines still arriving
ScrollInvWitness ==
    /\ n > 500
    /\ m.height = 40
    /\ m.logScroll = 500 - logViewportRows(40, 0)

\* C4: the scroll offset invariant holds in every reachable state, resize
\* events included.
ScrollInvAlways ==
    m.logScroll >= 0 /\ m.logScroll <= maxLogScroll(m)

\* C5: while logScroll > 0, processing a LogMsg leaves the sequence of log
\* lines shown in the log viewport unchanged.
FrozenWindow ==
    [][(m.width # 0 /\ m.logScroll > 0 /\ n' = n + 1)
          => View(m', 1).visibleLogs = View(m, 1).visibleLogs]_vars

\* the window the log panel shows per the layout contract: the last `rows`
\* lines ending at len(logs) - logScroll
WindowOf(mm, rows) ==
    LET e == max(0, Len(mm.logs) - mm.logScroll)
    IN  SubSeq(mm.logs, max(0, e - rows) + 1, e)

\* C6: View selects exactly logs[max(0, e - rows) .. e) with
\* e = max(0, len(logs) - logScroll), and rendering changes no model field.
ViewWindow ==
    [][(pc = "dirty" /\ pc' = "rendered")
          => /\ m' = m
             /\ ~frame'.initializing =>
                   /\ ~frame'.panic
                   /\ frame'.visibleLogs = WindowOf(m, frame'.botRows)]_vars

\* a scrolled-back view whose window is full
ViewWindowWitness ==
    /\ pc = "rendered"
    /\ ~frame.initializing
    /\ m.logScroll > 0
    /\ Len(frame.visibleLogs) = frame.botRows
    /\ frame.visibleLogs[Len(frame.visibleLogs)] = Len(m.logs) - m.logScroll

EveryQueryFails(qq) ==
    /\ qq.stats.err /\ qq.cp.err /\ qq.tx.err /\ qq.ep.err /\ qq.recent.err
    /\ qq.manifest.err /\ qq.envfile.err

SentinelStat(st) == st.Status = "Stopped" /\ st.CPU = "-" /\ st.Mem = "-"

\* C7: when every query of a poll fails, the StatsMsg is fully populated
\* with sentinels, and applying and rendering it raises no error.
AllFailSentinels ==
    EveryQueryFails(q) =>
        /\ \A s \in msgs.stats :
              /\ SentinelStat(s.body.Sui) /\ SentinelStat(s.body.Pg) /\ SentinelStat(s.body.Fe)
              /\ s.body.Chain.Checkpoint = "Offline"
              /\ s.body.Chain.TxCount = "-"
              /\ s.body.Chain.Epoch = "-"
              /\ s.body.Admin = "Unknown"
              /\ s.body.WorldObjs = [isNil |-> FALSE, kv |-> {}]
              /\ s.body.EnvVars = [isNil |-> FALSE, kv |-> {}]
              /\ s.body.Addresses = [isNil |-> FALSE, kv |-> {}]
        /\ pc \in {"applied", "rendered"} =>
              /\ SentinelStat(m.suiStat) /\ SentinelStat(m.pgStat) /\ SentinelStat(m.feStat)
              /\ m.chainInfo.Checkpoint = "Offline"
              /\ m.chainInfo.TxCount = "-"
              /\ m.chainInfo.Epoch = "-"
              /\ m.adminAddr = "Unknown"
              /\ ~m.worldObjs.isNil /\ ~m.envVars.isNil /\ ~m.addresses.isNil
        /\ pc = "rendered" => ~frame.initializing /\ ~frame.panic

\* the all-failing snapshot was applied and rendered
AllFailWitness ==
    /\ EveryQueryFails(q) /\ q.events.err /\ q.derive = ""
    /\ pc = "rendered"
    /\ m.adminAddr = "Unknown"

\* C8: each failing query (transport error or no decodable result) leaves
\* its field at the sentinel; each succeeding query sets its field to the
\* returned value.
PerQuerySentinel ==
    \A s \in msgs.stats :
        /\ s.body.Chain.Checkpoint =
              (IF q.cp.err \/ q.cp.result = "" THEN "Offline" ELSE q.cp.result)
        /\ s.body.Chain.TxCount =
              (IF q.tx.err \/ q.tx.result = "" THEN "-" ELSE q.tx.result)
        /\ s.body.Chain.Epoch =
              (IF q.ep.err \/ ~q.ep.hasEpoch THEN "-" ELSE q.ep.epoch)
        /\ s.body.Admin =
              (IF q.envfile.err THEN "Unknown"
               ELSE IF q.envfile.admin = "" THEN "Not Found" ELSE q.envfile.admin)
        /\ (q.stats.err => SentinelStat(s.body.Sui) /\ SentinelStat(s.body.Pg)
                             /\ SentinelStat(s.body.Fe))

\* C9: each TickMsg processed starts one poll and schedules one timer, each
\* poll sends one StatsMsg; one tick timer is pending (or its TickMsg not yet
\* processed) while the dashboard runs, and the StatsMsg sent never exceed
\* the ticks processed plus the poll of Init.
OneTickOnePoll ==
    /\ hist.timers = hist.ticks + 1
    /\ hist.polls = hist.ticks + 1
    /\ Cardinality(polls) + hist.stats = hist.polls
    /\ hist.stats <= hist.ticks + 1
    /\ Cardinality(timers) + Cardinality(msgs.tick) = 1

\* several ticks processed, every poll has delivered, the next timer pending
OneTickOnePollWitness ==
    /\ hist.ticks >= 2
    /\ hist.stats = hist.ticks + 1
    /\ Cardinality(timers) = 1

\* the events Update can be handed in the lifecycle specification
UpdateAny ==
    UpdateQuitKey \/ UpdateCommandKey \/ UpdateStatsMsg \/ UpdateRestartUpMsg \/ UpdateLogMsg

\* C10: while a lifecycle command is running, the state machine keeps
\* processing other events.
KeepsProcessing ==
    (~quit /\ \E i \in 1..Len(cmds) : cmds[i].st = "running") => ENABLED UpdateAny

\* the deploy.log lines in the buffer
DeployLines(mm) == {i \in 1..Len(mm.logs) : mm.logs[i].text = DeployLog}

\* C11: a follower's delivery of a line never blocks on the consumer: a
\* follower that is delivering a line can always proceed.
SendNeverBlocks ==
    \A f \in Followers :
        fol.pc[f] = "send" => ENABLED (FolDeliver(f) \/ FolSendAbort(f))

AllFollowersDone == \A f \in Followers : fol.pc[f] = "done"

\* C12: once the shared cancellation signal has fired, every log follower
\* eventually terminates, and the file follower enqueues no log line after it
\* has observed the cancellation.
CancelTerminates ==
    /\ (fol.ctx ~> AllFollowersDone)
    /\ [][fol.saw => DeployLines(m') = DeployLines(m)]_vars

\* all four followers ran, lines were forwarded, the dashboard was torn
\* down, the file follower observed the cancellation and every follower ended
CancelTerminatesWitness ==
    /\ fol.ctx /\ fol.saw /\ AllFollowersDone
    /\ DeployLines(m) # {}
    /\ \E i \in 1..Len(m.logs) : m.logs[i].text \in ContainerSet

\* C13: a log source that is unavailable never makes its follower give up
\* before cancellation.
NeverGivesUp ==
    ~fol.ctx => \A f \in Followers : fol.pc[f] # "done"

\* the messages the callbacks send for a failed command
ErrorTexts ==
    {"Error during restart (down)", "Error during restart (up)",
     "Error running env down", "Error enabling GraphQL", "Error enabling frontend"}

\* the error lines of command i, in flight or in the log buffer
ErrorLinesOf(i) ==
    Cardinality({l \in msgs.log : l.id = i /\ l.text \in ErrorTexts})
      + Cardinality({k \in 1..Len(m.logs) :
                        m.logs[k].id = i /\ m.logs[k].text \in ErrorTexts})

\* C14: a failed lifecycle command produces exactly one error message, which
\* Update appends to the log buffer leaving every other model field as it
\* was, and Update returns tea.Quit only for the keys q and ctrl+c.
FailureSurfaced ==
    /\ [](\A i \in 1..Len(cmds) :
             ErrorLinesOf(i) = IF cmds[i].st = "failed" THEN 1 ELSE 0)
    /\ [][\A l \in msgs.log :
             (l \notin msgs'.log /\ l.text \in ErrorTexts)
                => /\ m' = [m EXCEPT !.logs = Append(m.logs, l)]
                   /\ quit' = quit]_vars
    /\ [][quit' # quit => UpdateQuitKey]_vars

\* a command failed, its error line is in the log buffer and the dashboard
\* is still running
FailureSurfacedWitness ==
    /\ ~quit
    /\ \E i \in 1..Len(cmds) :
          /\ cmds[i].st = "failed"
          /\ \E k \in 1..Len(m.logs) :
                m.logs[k].id = i /\ m.logs[k].text \in ErrorTexts

\* the flags handleRestart derives from the model
FlagArgs(mm) ==
    (IF mm.graphqlOn THEN {"--with-graphql"} ELSE {})
      \cup (IF mm.frontendOn THEN {"--with-frontend"} ELSE {})

\* C15: the env up command of a restart carries --with-graphql and
\* --with-frontend exactly as enabled in the model when it is issued.
RestartCarriesCurrentFlags ==
    [][\A u \in msgs.up :
          u \notin msgs'.up => cmds'[Len(cmds')].upArgs = FlagArgs(m)]_vars

\* C16: at a terminal size where no minimum-size floor is active, the frame
\* has exactly `height` lines, every line is exactly `width` columns wide,
\* and leftInner + rightInner + 3 = width = logInner + 2.
FrameExact ==
    (lay.fn = "View" /\ lay.st = "ret" /\ m.width >= 5 /\ m.height - lay.args[1] >= 14) =>
        /\ Len(lay.out) = m.height
        /\ \A i \in 1..Len(lay.out) : Width(lay.out[i].s) = m.width
        /\ panelWidths(m.width).leftInner + panelWidths(m.width).rightInner + 3 = m.width
        /\ m.width = panelWidths(m.width).logInner + 2

\* the 0-based columns of the junction glyphs of a line
JunctionCols(s) == {i - 1 : i \in {j \in 1..Len(s) : s[j] \in {"tee", "cross", "up"}}}

\* the borders next to a section with a vertical divider
DividerBorders == {"top", "split", "mid", "bottomj"}

\* C17 (as stated): every border next to a section with a vertical divider
\* has its junction glyph at column leftInner + 1, for every width and every
\* title or footer of the dashboard.
JunctionAligned ==
    (lay.fn = "View" /\ lay.st = "ret") =>
        \A i \in 1..Len(lay.out) :
            lay.out[i].kind \in DividerBorders =>
                JunctionCols(lay.out[i].s) = {panelWidths(m.width).leftInner + 1}

\* C17: when the left title or the footer fits in the left panel
\* (leftInner >= its width + 3) the junction glyph is at column
\* leftInner + 1; when it does not fit, the top border and the split middle
\* border put their junction right after the title, at column width + 4,
\* and the middle border and the bottom border with junction have none.
JunctionWhenTitleFits ==
    (lay.fn = "View" /\ lay.st = "ret") =>
        \A i \in 1..Len(lay.out) :
            lay.out[i].kind \in DividerBorders =>
                JunctionCols(lay.out[i].s) =
                    IF panelWidths(m.width).leftInner >= lay.out[i].tw + 3
                    THEN {panelWidths(m.width).leftInner + 1}
                    ELSE IF lay.out[i].kind \in {"top", "split"}
                         THEN {lay.out[i].tw + 4}
                         ELSE {}

\* a frame with the events panel, wide enough for the footer to end left of
\* the divider: the bottom border has its junction under the divider
JunctionWitness ==
    /\ lay.fn = "View" /\ lay.st = "ret"
    /\ \E i \in 1..Len(lay.out) :
          /\ lay.out[i].kind = "bottomj"
          /\ JunctionCols(lay.out[i].s) = {panelWidths(m.width).leftInner + 1}
    /\ \E i \in 1..Len(lay.out) :
          /\ lay.out[i].kind = "split"
          /\ JunctionCols(lay.out[i].s) = {panelWidths(m.width).leftInner + 1}

BorderFns ==
    {"BuildTopBorder", "BuildLeftMidBorder", "BuildMiddleBorder", "BuildBottomBorder",
     "BuildFullBorder", "BuildSplitMiddleBorder", "BuildBottomBorderWithJunction"}

\* the glyphs a border starts and ends with
GlyphPair(fn) ==
    CASE fn = "BuildTopBorder" -> <<"tl", "tr">>
      [] fn \in {"BuildBottomBorder", "BuildBottomBorderWithJunction"} -> <<"bl", "br">>
      [] OTHER -> <<"ml", "mr">>

\* C18: for all integer widths and all titles, every border function returns
\* without passing a negative count to strings.Repeat, and its result starts
\* and ends with the matching glyph pair.
BordersWellFormed ==
    (lay.fn \in BorderFns /\ lay.st = "ret") =>
        /\ \A i \in 1..Len(lay.out.runs) : lay.out.runs[i] >= 0
        /\ lay.out.s[1] = GlyphPair(lay.fn)[1]
        /\ lay.out.s[Len(lay.out.s)] = GlyphPair(lay.fn)[2]

\* a top border built for a negative width and a title that does not fit
BordersWellFormedWitness ==
    /\ lay.fn = "BuildTopBorder" /\ lay.st = "ret"
    /\ lay.args[1] < 0
    /\ Width(lay.args[4]) > lay.args[2]
    /\ lay.out.runs = <<0, 0>>

\* C19: PadLines returns exactly targetRows lines, each exactly innerW
\* columns wide, for any input lines, lines wider than innerW included.
PadLinesExact ==
    (lay.fn = "PadLines" /\ lay.st = "ret") =>
        /\ Len(lay.out) = lay.args[2]
        /\ \A i \in 1..Len(lay.out) : Width(lay.out[i]) = lay.args[3]

\* C20: OverlayLogo returns its input when there are fewer lines than logo
\* rows or innerW < logo width + 4; otherwise it returns as many lines,
\* changes only the last logo-height lines, and every line it changes is
\* innerW columns wide when it was innerW columns wide before.
OverlayLogoContract ==
    (lay.fn = "OverlayLogo" /\ lay.st = "ret") =>
        LET lines == lay.args[1]
            innerW == lay.args[2]
            logoH == Len(lay.args[3])
            logoW == Width(lay.args[3][1])
        IN  IF Len(lines) < logoH \/ innerW < logoW + 4
            THEN lay.out = lines
            ELSE /\ Len(lay.out) = Len(lines)
                 /\ \A i \in 1..Len(lines) :
                       /\ i <= Len(lines) - logoH => lay.out[i] = lines[i]
                       /\ (lay.out[i] # lines[i] /\ Width(lines[i]) = innerW)
                             => Width(lay.out[i]) = innerW

\* the logo was laid over a line whose cut falls inside a wide rune, with a
\* line above it left alone
OverlayLogoWitness ==
    /\ lay.fn = "OverlayLogo" /\ lay.st = "ret"
    /\ Len(lay.out) > Len(lay.args[3])
    /\ lay.out[1] = lay.args[1][1]
    /\ \E i \in 1..Len(lay.out) :
          /\ lay.out[i] # lay.args[1][i]
          /\ Width(TruncateToWidth(lay.args[1][i], lay.args[2] - Width(lay.args[3][1]) - 2))
                = lay.args[2] - Width(lay.args[3][1]) - 1
          /\ Width(lay.out[i]) = lay.args[2]

\* C21: for s >= 0 whole seconds FormatAge returns s "s" below 60,
\* floor(s/60) "m" below 3600, floor(s/3600) "h" below 86400 and
\* floor(s/86400) "d" otherwise; 45s, 90s, 3700s, 90000s give 45s, 1m, 1h,
\* 1d and exactly 60s, 3600s, 86400s give 1m, 1h, 1d.
FormatAgeRanges ==
    (lay.fn = "FormatAge" /\ lay.st = "ret") =>
        LET secs == lay.args[1]
        IN  /\ secs < 60 => lay.out = [n |-> secs, unit |-> "s"]
            /\ (60 <= secs /\ secs < 3600) =>
                  /\ lay.out.unit = "m"
                  /\ lay.out.n * 60 <= secs /\ secs < (lay.out.n + 1) * 60
            /\ (3600 <= secs /\ secs < 86400) =>
                  /\ lay.out.unit = "h"
                  /\ lay.out.n * 3600 <= secs /\ secs < (lay.out.n + 1) * 3600
            /\ 86400 <= secs =>
                  /\ lay.out.unit = "d"
                  /\ lay.out.n * 86400 <= secs /\ secs < (lay.out.n + 1) * 86400
            /\ secs = 45 => lay.out = [n |-> 45, unit |-> "s"]
            /\ secs \in {60, 90} => lay.out = [n |-> 1, unit |-> "m"]
            /\ secs \in {3600, 3700} => lay.out = [n |-> 1, unit |-> "h"]
            /\ secs \in {86400, 90000} => lay.out = [n |-> 1, unit |-> "d"]

\* exactly one hour was formatted as 1h
FormatAgeWitness ==
    lay.fn = "FormatAge" /\ lay.st = "ret" /\ lay.args[1] = 3600
      /\ lay.out = [n |-> 1, unit |-> "h"]

\* C22: every poll terminates and delivers its StatsMsg even if one external
\* source never responds, each query being bounded by its own timeout.
PollAlwaysDelivers == <>(hist.stats = 1 /\ pc = "applied")

\* the polls in which neither of the two commands hangs do deliver
PollDeliversPastRpc == (q.hang \notin {"stats", "derive"}) => <>(pc = "applied")

\* the fields applyStats takes from the StatsMsg, and the two feature flags
SnapshotFields ==
    {"suiStat", "pgStat", "feStat", "chainInfo", "recentTxs", "objectTrackers",
     "adminAddr", "envVars", "worldObjs", "addresses", "worldPkgID", "worldEvents"}

FlagFields == {"graphqlOn", "frontendOn"}

OnlyChanges(F) == \A f \in DOMAIN m : f \notin F => m'[f] = m[f]

TakenFrom(body) ==
    /\ m'.suiStat = body.Sui /\ m'.pgStat = body.Pg /\ m'.feStat = body.Fe
    /\ m'.chainInfo = body.Chain /\ m'.recentTxs = body.Chain.RecentTxs
    /\ m'.objectTrackers = body.Objects /\ m'.adminAddr = body.Admin
    /\ m'.envVars = body.EnvVars /\ m'.worldObjs = body.WorldObjs
    /\ m'.addresses = body.Addresses /\ m'.worldPkgID = body.WorldPkgID
    /\ m'.worldEvents = body.Events

\* C23: a LogMsg changes only logs; a StatsMsg replaces every snapshot field
\* and the two flags and leaves logs, logScroll, width and height; a
\* WindowSizeMsg changes only width and height; scroll keys and the mouse
\* wheel change only logScroll; TickMsg, restartUpMsg and the keys r, d, g, f
\* leave the Model unchanged.
EventFrames ==
    [][ /\ UpdateLogMsg => OnlyChanges({"logs"})
        /\ UpdateStatsMsg =>
              /\ OnlyChanges(SnapshotFields \cup FlagFields)
              /\ \E st \in msgs.stats : st \notin msgs'.stats /\ TakenFrom(st.body)
        /\ UpdateWindowSizeMsg => OnlyChanges({"width", "height"})
        /\ (UpdateScrollKey \/ UpdateMouseMsg) => OnlyChanges({"logScroll"})
        /\ (UpdateTickMsg \/ UpdateRestartUpMsg \/ UpdateCommandKey) => m' = m ]_vars

\* every kind of event has been processed, the StatsMsg while scrolled back
EventFramesWitness ==
    /\ m.adminAddr = fetchStats(AllOk).Admin
    /\ m.logScroll > 0
    /\ Len(m.logs) = MaxEventLogs + 1
    /\ m.width = 120
    /\ hist.ticks = 1
    /\ msgs.up = {}
    /\ Len(cmds) = 3

\* C24: the transition function is deterministic: the same Model and the
\* same event give the same next Model and the same commands, whatever the
\* files on disk hold when the event is processed.
UpdateDeterministic ==
    \A st \in msgs.stats : \A d \in DiskStates :
        applyStats(m, st.body, d) = applyStats(m, st.body, disk)

\* C25: in live mode with a non-empty buffer the newest log line is among
\* the rows of the log panel, for every panel width and line length, lines
\* that wrap onto several rows included.
NewestLineShown ==
    (lay.fn = "renderBottomPanels" /\ lay.st = "ret" /\ m.logScroll = 0 /\ m.logs # <<>>) =>
        \E r \in 1..Len(lay.out) : \E c \in 1..Len(lay.out[r]) :
            lay.out[r][c] = ToString(m.logs[Len(m.logs)].id)

\* without a wrapping line the newest line is shown
NewestLineShownUnwrapped ==
    (lay.fn = "renderBottomPanels" /\ lay.st = "ret"
       /\ \A i \in 1..Len(m.logs) : m.logs[i].len = ShortLine) =>
        \E r \in 1..Len(lay.out) : \E c \in 1..Len(lay.out[r]) :
            lay.out[r][c] = ToString(m.logs[Len(m.logs)].id)

\* the pieces of line i as the file holds them when the line is complete
WholeLine(i) == {<< <<i, "whole">> >>, << <<i, "head">>, <<i, "tail">> >>}

\* C26: once the file is open every newline-terminated line appended to it
\* is forwarded exactly once, complete and in file order, a line written in
\* several chunks that the follower meets at end-of-file included.
TailForwardsWholeLines ==
    /\ Len(m.logs) <= fol.made
    /\ \A i \in 1..Len(m.logs) : m.logs[i].line \in WholeLine(i)

\* lines written with one write each are forwarded complete and in order
TailForwardsAtomicLines ==
    (\A k \in 1..Len(fol.file.data) : fol.file.data[k][2] = "whole") =>
        /\ Len(m.logs) <= fol.made
        /\ \A i \in 1..Len(m.logs) : m.logs[i].line \in WholeLine(i)

\* the arguments C27 expects of the env up command of a g or f key
EnableArgs(own, otherOn, other) == {own} \cup (IF otherOn THEN {other} ELSE {})

\* C27: g while GraphQL is enabled, or f while the frontend is enabled,
\* issues no command and leaves the Model unchanged; while the subsystem is
\* disabled it issues exactly one env up command with that subsystem's flag,
\* plus the other's flag exactly when the other is enabled, and changes
\* neither feature flag.
EnableKeysGuarded ==
    /\ [](/\ m.graphqlOn => handleEnableGraphQL(m) = <<>>
          /\ m.frontendOn => handleEnableFrontend(m) = <<>>
          /\ ~m.graphqlOn =>
                /\ Len(handleEnableGraphQL(m)) = 1
                /\ handleEnableGraphQL(m)[1].upArgs
                     = EnableArgs("--with-graphql", m.frontendOn, "--with-frontend")
          /\ ~m.frontendOn =>
                /\ Len(handleEnableFrontend(m)) = 1
                /\ handleEnableFrontend(m)[1].upArgs
                     = EnableArgs("--with-frontend", m.graphqlOn, "--with-graphql"))
    /\ [][/\ UpdateCommandKey => m' = m
          /\ \A i \in (Len(cmds) + 1)..Len(cmds') :
                /\ cmds'[i].kind = "enableGraphQL" =>
                      /\ ~m.graphqlOn /\ Len(cmds') = Len(cmds) + 1
                      /\ cmds'[i].upArgs
                           = EnableArgs("--with-graphql", m.frontendOn, "--with-frontend")
                /\ cmds'[i].kind = "enableFrontend" =>
                      /\ ~m.frontendOn /\ Len(cmds') = Len(cmds) + 1
                      /\ cmds'[i].upArgs
                           = EnableArgs("--with-frontend", m.graphqlOn, "--with-graphql")]_vars

\* g was pressed with the frontend enabled and GraphQL disabled and issued
\* env up with both flags; f issues nothing in that Model
EnableKeysWitness ==
    /\ m.frontendOn /\ ~m.graphqlOn
    /\ Len(cmds) = 1
    /\ cmds[1].kind = "enableGraphQL"
    /\ cmds[1].upArgs = {"--with-graphql", "--with-frontend"}
    /\ handleEnableFrontend(m) = <<>>

\* C28: at most one poll is in flight at any time, so StatsMsgs are applied
\* in the order in which their polls were started: no StatsMsg is applied
\* while an older poll is still running or its StatsMsg still undelivered.
OnePollInFlight ==
    /\ [](Cardinality(polls) <= 1)
    /\ [][\A st \in msgs.stats :
             st \notin msgs'.stats =>
                /\ \A p \in polls : p > st.id
                /\ \A o \in msgs.stats : o.id >= st.id]_vars

\* the StatsMsgs alone: none is applied before that of an older poll
StatsAppliedInOrder ==
    [][\A st \in msgs.stats :
          st \notin msgs'.stats =>
             /\ \A p \in polls : p > st.id
             /\ \A o \in msgs.stats : o.id >= st.id]_vars

\* the restart begun by command i has not completed: its env down is
\* queued or running, or its restartUpMsg is waiting, or its env up is
\* queued or running
RestartInFlight(i) ==
    /\ cmds[i].kind = "restartDown"
    /\ \/ cmds[i].st \in {"queued", "running"}
       \/ \E u \in msgs.up : u.rid = i
       \/ \E j \in 1..Len(cmds) :
             /\ cmds[j].kind = "restartUp" /\ cmds[j].rid = i
             /\ cmds[j].st \in {"queued", "running"}

\* C29: at most one restart chain is in flight at any time: an r key
\* processed while the stop or the start command of an earlier restart has
\* not completed issues no further stop command.
OneRestartInFlight ==
    Cardinality({i \in 1..Len(cmds) : RestartInFlight(i)}) <= 1

\* C30: WaitForLogs returns as soon as the first of three events occurs: nil
\* once a line with the search string has been read, without requiring the
\* log-follow process to exit or the context to expire; a timeout error if
\* the context expires first; an exited-before-ready error if the stream
\* ends first.
WaitReturnsOnFirstEvent ==
    /\ (lay.fn = "WaitForLogs" /\ lay.st = "wait") => ENABLED WaitReap
    /\ (lay.fn = "WaitForLogs" /\ lay.st = "ret") =>
          /\ lay.out = "nil" => fol.read
          /\ lay.out = "timeout" => fol.ctx
          /\ lay.out = "exited before ready" => fol.proc = "exited" /\ ~fol.read

\* the result WaitForLogs returns, when it returns, is that of an event
\* that has occurred
WaitResultsJustified ==
    (lay.fn = "WaitForLogs" /\ lay.st = "ret") =>
        /\ lay.out = "nil" => fol.read /\ fol.proc = "exited"
        /\ lay.out = "timeout" => fol.ctx
        /\ lay.out = "exited before ready" => fol.proc = "exited" /\ ~fol.read
====
